---- MODULE Spec2Model ----
(***************************************************************************)
(* State-machine model of the webchat repository.                          *)
(*                                                                         *)
(* Two variants of the chat flow live in the repository:                   *)
(*   "session"  - the Express/PostgreSQL/socket.io backend                 *)
(*                (backend/server.js) and its React client                 *)
(*                (frontend/src/App.js);                                   *)
(*   "docstore" - the Next.js/Firestore client (ChatArea.tsx, the chat     *)
(*                page, lib/auth-context, lib/n8n, the /api/chat proxy).   *)
(* Spec models the chat flow of both (Init picks the variant), SpecAccess  *)
(* the protected routes with every kind of token, SpecRealtime the socket  *)
(* rooms and message listeners, SpecAuth the register/login routes and     *)
(* SpecTitle the title derivation.                                         *)
(***************************************************************************)
EXTENDS Integers, Sequences, FiniteSets, TLC

\* ------------------------------------------------------------------ bounds
MaxSessions == 1
MaxMessages == 2
MaxUsers == 2
MaxTextLen == 52
MaxListed == 2
MaxTokens == 3

Clients == {1, 2}

\* ------------------------------------------------------- program constants
TitleMax == 50
MinPasswordLength == 8
DefaultPage == 1
DefaultLimit == 50

\* --------------------------------------------------------------- variables
VARIABLES
    variant,        \* "session" | "docstore" | "auth" | "title"
    config,         \* backend config.json / NEXT_PUBLIC_* environment
    users,          \* users table: Seq of rows, id = index
    issued,         \* user ids for which jwt.sign produced a token
    evTokens,       \* email_verification_tokens rows
    clientUser,     \* the user logged in at each client
    sessions,       \* chat_sessions rows / conversations documents, id = index
    messages,       \* messages rows / messages documents, id = index
    now,            \* CURRENT_TIMESTAMP / serverTimestamp()
    ticking,        \* whether the specification lets the clock advance
    logsOk,         \* whether the audit and activity log tables accept inserts
    capacity,       \* how many messages the specification lets the store hold
    req,            \* per client: the send in flight (handler position)
    vreq,           \* per client: the verify-email request in flight
    rreq,           \* per client: the register or resend-verification request in flight
    latency,        \* whether socket events take time to reach the clients
    currentSession, \* per client: the `currentSession` React state (0: null)
    loading,        \* per client: the loadMessages request in flight
    inbox,          \* per client: newMessage events emitted and not yet handled
    joined,         \* per client: rooms joined / conversation listened to
    view,           \* per client: the `messages` React state (message ids)
    resp,           \* the last response produced by a handler
    tIn, tOut       \* input and result of the pure function under check

vars == <<variant, config, logsOk, capacity, users, issued, evTokens, clientUser, sessions,
          messages, now, ticking, req, vreq, rreq, latency, currentSession, loading, inbox,
          joined, view, resp, tIn, tOut>>

authVars == <<users, issued, evTokens>>
chatVars == <<clientUser, sessions, messages, now, req, joined, view>>
fixedVars == <<variant, config, ticking, logsOk, capacity, latency>>
socketVars == <<currentSession, loading, inbox>>
pureVars == <<tIn, tOut>>

\* ------------------------------------------------------------------- texts
\* A text is a sequence of characters.
Rep(ch, n) == [i \in 1..n |-> ch]

IsSpace(ch) == ch = " "

RECURSIVE TrimStart(_)
TrimStart(t) ==
    IF t = <<>> THEN <<>>
    ELSE IF IsSpace(Head(t)) THEN TrimStart(Tail(t)) ELSE t

RECURSIVE TrimEnd(_)
TrimEnd(t) ==
    IF t = <<>> THEN <<>>
    ELSE IF IsSpace(t[Len(t)]) THEN TrimEnd(SubSeq(t, 1, Len(t) - 1)) ELSE t

\* String.prototype.trim
Trim(t) == TrimEnd(TrimStart(t))

\* String.prototype.slice(0, n)
Slice0(t, n) == SubSeq(t, 1, IF Len(t) < n THEN Len(t) ELSE n)

\* JavaScript truthiness of a string: the empty string is falsy
Truthy(t) == t # <<>>

Ellipsis == <<".", ".", ".">>

FallbackText ==
    <<"S","o","r","r","y",","," ","a","n"," ","e","r","r","o","r"," ",
      "o","c","c","u","r","r","e","d","."," ","P","l","e","a","s","e"," ",
      "t","r","y"," ","a","g","a","i","n",".">>

\* the title with the ellipsis added from TitleMax characters on
WrongTitleOf(firstMessage) ==
    Slice0(firstMessage, TitleMax)
        \o (IF Len(firstMessage) >= TitleMax THEN Ellipsis ELSE <<>>)

\* title derivation of updateConversationTitle
TitleOf(firstMessage) ==
    Slice0(firstMessage, TitleMax)
        \o (IF Len(firstMessage) > TitleMax THEN Ellipsis ELSE <<>>)


\* ------------------------------------------------- webhook (upstream) model
\* The body the webhook answers with: a non-JSON text, a bare JSON string, or
\* a JSON object given as the sequence of its (key, value) members.
BodyText(t)       == [json |-> FALSE, type |-> "string", value |-> t,    fields |-> <<>>]
BodyJsonString(t) == [json |-> TRUE,  type |-> "string", value |-> t,    fields |-> <<>>]
BodyJsonObject(f) == [json |-> TRUE,  type |-> "object", value |-> <<>>, fields |-> f]
NoBody            == BodyText(<<>>)

\* One outcome of one webhook call: the call times out / the network fails,
\* or an HTTP response with a status and a body arrives.
Timeout          == [kind |-> "timeout", status |-> 0, body |-> NoBody]
Http(status, b)  == [kind |-> "http", status |-> status, body |-> b]

\* no webhook call was made
NoOutcome        == [kind |-> "none", status |-> 0, body |-> NoBody]

\* "fails, times out, or returns a non-success status"
WebhookFailed(out) == out.kind = "timeout" \/ out.status < 200 \/ out.status >= 300

HasKey(obj, k) == \E i \in 1..Len(obj.fields) : obj.fields[i].k = k

\* obj[k] of a parsed JSON object; <<>> (falsy) when the key is absent
Field(obj, k) ==
    IF HasKey(obj, k)
    THEN LET i == CHOOSE j \in 1..Len(obj.fields) :
                    /\ obj.fields[j].k = k
                    /\ \A l \in (j+1)..Len(obj.fields) : obj.fields[l].k # k
         IN obj.fields[i].v
    ELSE <<>>

Quoted(t) == <<"\"">> \o t \o <<"\"">>

RECURSIVE Members(_, _, _)
\* the members of JSON.stringify's output; sep precedes and colon follows a key
Members(f, sep, colon) ==
    IF f = <<>> THEN <<>>
    ELSE sep \o Quoted(<<Head(f).k>>) \o colon \o Quoted(Head(f).v)
         \o (IF Len(f) > 1 THEN <<",">> ELSE <<>>)
         \o Members(Tail(f), sep, colon)

\* JSON.stringify(obj)
Stringify(obj) ==
    IF obj.type = "string" THEN Quoted(obj.value)
    ELSE <<"{">> \o Members(obj.fields, <<>>, <<":">>) \o <<"}">>

\* JSON.stringify(obj, null, 2)
StringifyPretty(obj) ==
    IF obj.type = "string" THEN Quoted(obj.value)
    ELSE IF obj.fields = <<>> THEN <<"{", "}">>
    ELSE <<"{">> \o Members(obj.fields, <<"\n", " ", " ">>, <<":", " ">>) \o <<"\n", "}">>

\* server.js: botMessageText, from response.data
botMessageText(webhookResponse) ==
    IF webhookResponse.type = "string" THEN webhookResponse.value
    ELSE IF Truthy(Field(webhookResponse, "text")) THEN Field(webhookResponse, "text")
    ELSE IF Truthy(Field(webhookResponse, "response")) THEN Field(webhookResponse, "response")
    ELSE StringifyPretty(webhookResponse)

\* axios validateStatus of the webhook call: the promise resolves iff TRUE
validateStatus(status) == status < 500

\* -------------------------------------------------------------- the tokens
NoToken      == [present |-> FALSE, valid |-> FALSE, userId |-> 0]
TokenOf(u)   == [present |-> TRUE,  valid |-> TRUE,  userId |-> u]
\* a token of u whose signature no longer verifies (expired or tampered with)
ExpiredOf(u) == [present |-> TRUE,  valid |-> FALSE, userId |-> u]

\* ------------------------------------------------------ optional side work
\* a log call whose failed INSERT reaches the route handler
WrongLogUserActivity == IF logsOk THEN "done" ELSE "thrown"

\* server.js 197-208, logAudit: the INSERT runs inside try/catch; a failure is
\* logged and the caller goes on
logAudit == IF logsOk THEN "done" ELSE "caught"

\* server.js 210-221, logUserActivity: as logAudit
logUserActivity == IF logsOk THEN "done" ELSE "caught"

\* auth.js 115-123: emailService.sendWelcomeEmail inside its try/catch; the
\* handler goes on whether or not the mail was sent (ok)
sendWelcomeEmail(ok) == IF ok THEN "done" ELSE "caught"

\* -------------------------------------------------------------- responses
\* The last answer a handler gave: what the client sees (op, status, error,
\* code, body, token), the bearer token and the input of the request it
\* answers, and what the handler did for it (ran: the route handler
\* behind the middleware ran; cross: the caller named a conversation of
\* another user; lookups: user rows it looked up; for a finished send its
\* conversation, the ids of the messages it stored (0: none), what became of
\* its webhook call, how many calls it issued, the outcome of the call and
\* the HTTP status the proxy route answered the browser with (0: not called);
\* for a verify-email request its token and what became of the welcome
\* email).
NoCode == "none"
Response(op, status, error) ==
    [op |-> op, status |-> status, error |-> error, code |-> NoCode, body |-> <<>>,
     token |-> NoToken, bearer |-> NoToken, input |-> <<>>, ran |-> TRUE, cross |-> FALSE, lookups |-> 0,
     session |-> 0, umsg |-> 0, bmsg |-> 0, webhook |-> "none", calls |-> 0,
     upstream |-> NoOutcome, proxy |-> 0, vtoken |-> 0, welcome |-> "none"]
NoResp == [Response("none", 0, "") EXCEPT !.ran = FALSE]

\* a middleware that calls next() for every request
WrongAuthenticateToken(tk) ==
    [ok |-> TRUE, status |-> 200, error |-> "", code |-> NoCode,
     user |-> IF tk.userId \in 1..Len(users) THEN tk.userId ELSE 1]

\* server.js: authenticateToken; ok = next() was called with req.user = user
authenticateToken(tk) ==
    IF ~tk.present
    THEN [ok |-> FALSE, status |-> 401, error |-> "Access token required",
          code |-> NoCode, user |-> 0]
    ELSE IF ~tk.valid
    THEN [ok |-> FALSE, status |-> 403, error |-> "Invalid token", code |-> NoCode, user |-> 0]
    ELSE IF ~(tk.userId \in 1..Len(users) /\ users[tk.userId].is_active)
    THEN [ok |-> FALSE, status |-> 403, error |-> "Invalid token", code |-> NoCode, user |-> 0]
    ELSE IF config.requireEmailVerification /\ ~users[tk.userId].email_verified
    THEN [ok |-> FALSE, status |-> 403, error |-> "Email verification required",
          code |-> "EMAIL_NOT_VERIFIED", user |-> 0]
    ELSE [ok |-> TRUE, status |-> 200, error |-> "", code |-> NoCode, user |-> tk.userId]

\* the response of a protected route whose middleware did not call next()
Denied(op, a, tk) ==
    [Response(op, a.status, a.error) EXCEPT !.code = a.code, !.ran = FALSE, !.bearer = tk]

\* the response of a route handler to a request that carried token tk
Reply(tk, op, status, error) == [Response(op, status, error) EXCEPT !.bearer = tk]




\* ------------------------------------------------------- rows and queries
Min(a, b) == IF a < b THEN a ELSE b

\* the clock after one more timestamp was taken
Tick(t) == IF ticking THEN t + 1 ELSE t

RECURSIVE Reverse(_)
\* Array.prototype.reverse
Reverse(q) == IF q = <<>> THEN <<>> ELSE Append(Reverse(Tail(q)), Head(q))

RECURSIVE SortBy(_, _)
\* the ids in S as a sequence, ascending by key[x] (then by id)
SortBy(S, key) ==
    IF S = {} THEN <<>>
    ELSE LET x == CHOOSE y \in S :
                    \A z \in S : key[y] < key[z] \/ (key[y] = key[z] /\ y <= z)
         IN <<x>> \o SortBy(S \ {x}, key)

SessionRow(u, name, t) ==
    [user_id |-> u, title |-> name, is_active |-> TRUE, updated_at |-> t]
\* a document that was removed from the conversations collection
NoDoc == [user_id |-> 0, title |-> <<>>, is_active |-> FALSE, updated_at |-> 0]

MessageRow(s, u, text, type, t) ==
    [session_id |-> s, user_id |-> u, text |-> text, type |-> type, created_at |-> t]

\* ids of the messages of session s, ORDER BY created_at ASC
MessageIdsOf(s) ==
    SortBy({i \in 1..Len(messages) : messages[i].session_id = s},
           [i \in 1..Len(messages) |-> messages[i].created_at])

\* a page query whose OFFSET skips the requested page as well
WrongPageDesc(s, limit, offset) ==
    LET desc == Reverse(MessageIdsOf(s))
    IN SubSeq(desc, offset + limit + 1, Min(offset + 2 * limit, Len(desc)))

\* SELECT ... ORDER BY created_at DESC LIMIT limit OFFSET offset
PageDesc(s, limit, offset) ==
    LET desc == Reverse(MessageIdsOf(s))
    IN SubSeq(desc, offset + 1, Min(offset + limit, Len(desc)))

\* SELECT id FROM chat_sessions WHERE id = s AND user_id = u AND is_active
OwnActiveSession(s, u) ==
    /\ s \in 1..Len(sessions)
    /\ sessions[s].user_id = u
    /\ sessions[s].is_active

\* SELECT id FROM chat_sessions WHERE id = s AND user_id = u
OwnSession(s, u) ==
    /\ s \in 1..Len(sessions)
    /\ sessions[s].user_id = u

\* user u names a conversation that belongs to another user
Cross(u, s) == s \in 1..Len(sessions) /\ sessions[s].user_id \notin {0, u}

\* an emit whose receivers put the message in front of their list
WrongEmit(s, mid) ==
    [c \in Clients |-> IF s \in joined[c] THEN <<mid>> \o view[c] ELSE view[c]]

\* io.to(`session_${s}`).emit('newMessage', m) and the client's newMessage
\* handler, setMessages(prev => [...prev, message])
Emit(s, mid) ==
    [c \in Clients |-> IF s \in joined[c] THEN Append(view[c], mid) ELSE view[c]]

\* the event on its way: with latency it waits in the inbox of every socket of
\* the room until the client handles it, otherwise it is handled at once
Publish(s, mid) ==
    IF latency
    THEN /\ inbox' = [c \in Clients |->
                        IF s \in joined[c] THEN Append(inbox[c], mid) ELSE inbox[c]]
         /\ UNCHANGED view
    ELSE /\ view' = Emit(s, mid)
         /\ UNCHANGED inbox

Idle == [pc |-> "idle", session |-> 0, user |-> 0, token |-> NoToken, text |-> <<>>,
         umsg |-> 0, calls |-> 0, first |-> FALSE]

\* no register request of the client is past its checks
RIdle == [pc |-> "idle", email |-> <<>>, password |-> <<>>, firstName |-> <<>>,
          lastName |-> <<>>]

\* no verify-email request of the client is past its checks
VIdle == [pc |-> "idle", token |-> 0, user |-> 0, verified |-> FALSE]

\* no loadMessages request in flight
LIdle == [pc |-> "idle", session |-> 0, data |-> <<>>]

InFlight == {c \in Clients : req[c].pc # "idle"}

\* room for the two messages of one more accepted send
RoomForSend == Len(messages) + 2 * (Cardinality(InFlight) + 1) <= capacity

\* ------------------------------------------------- session backend: routes
\* POST /api/chat/sessions
CreateSession(c, tk) ==
    /\ variant = "session"
    /\ LET a == authenticateToken(tk) IN
       IF ~a.ok
       THEN /\ resp' = Denied("createSession", a, tk)
            /\ UNCHANGED <<sessions, now>>
       ELSE /\ Len(sessions) < MaxSessions
            /\ sessions' = Append(sessions, SessionRow(a.user, <<"Chat">>, now))
            /\ now' = Tick(now)
            /\ resp' = [Reply(tk, "createSession", 201, "") EXCEPT !.session = Len(sessions) + 1]
    /\ UNCHANGED <<fixedVars, socketVars, vreq, rreq, authVars, clientUser, messages, req, joined, view, pureVars>>

\* GET /api/chat/sessions
GetSessions(c, tk) ==
    /\ variant = "session"
    /\ LET a == authenticateToken(tk) IN
       IF ~a.ok
       THEN resp' = Denied("getSessions", a, tk)
       ELSE resp' = [Reply(tk, "getSessions", 200, "") EXCEPT !.body =
                      Reverse(SortBy({s \in 1..Len(sessions) :
                                        sessions[s].user_id = a.user /\ sessions[s].is_active},
                                     [s \in 1..Len(sessions) |-> sessions[s].updated_at]))]
    /\ UNCHANGED <<fixedVars, socketVars, vreq, rreq, authVars, chatVars, pureVars>>

\* a delete route that removes the row instead of clearing is_active
WrongDeleteSession(c, tk, s) ==
    /\ variant = "session"
    /\ LET a == authenticateToken(tk) IN
       IF ~a.ok
       THEN /\ resp' = Denied("deleteSession", a, tk)
            /\ UNCHANGED <<sessions, now>>
       ELSE IF ~OwnActiveSession(s, a.user)
       THEN /\ resp' = [Reply(tk, "deleteSession", 404, "Session not found")
                            EXCEPT !.cross = Cross(a.user, s)]
            /\ UNCHANGED <<sessions, now>>
       ELSE /\ sessions' = [sessions EXCEPT ![s] = NoDoc]
            /\ now' = Tick(now)
            /\ resp' = Reply(tk, "deleteSession", 200, "")
    /\ UNCHANGED <<fixedVars, socketVars, vreq, rreq, authVars, clientUser, messages, req, joined, view, pureVars>>

\* DELETE /api/chat/sessions/:sessionId
DeleteSession(c, tk, s) ==
    /\ variant = "session"
    /\ LET a == authenticateToken(tk) IN
       IF ~a.ok
       THEN /\ resp' = Denied("deleteSession", a, tk)
            /\ UNCHANGED <<sessions, now>>
       ELSE IF ~OwnActiveSession(s, a.user)
       THEN /\ resp' = [Reply(tk, "deleteSession", 404, "Session not found")
                            EXCEPT !.cross = Cross(a.user, s)]
            /\ UNCHANGED <<sessions, now>>
       ELSE /\ sessions' = [sessions EXCEPT ![s].is_active = FALSE, ![s].updated_at = now]
            /\ now' = Tick(now)
            /\ resp' = Reply(tk, "deleteSession", 200, "")
    /\ UNCHANGED <<fixedVars, socketVars, vreq, rreq, authVars, clientUser, messages, req, joined, view, pureVars>>

\* GET /api/chat/sessions/:sessionId/messages?page=&limit=
GetMessages(c, tk, s, page, limit) ==
    /\ variant = "session"
    /\ LET a == authenticateToken(tk) IN
       IF ~a.ok
       THEN resp' = Denied("getMessages", a, tk)
       ELSE IF ~OwnSession(s, a.user)
       THEN resp' = [Reply(tk, "getMessages", 404, "Session not found")
                        EXCEPT !.cross = Cross(a.user, s)]
       ELSE resp' = [Reply(tk, "getMessages", 200, "") EXCEPT
                        !.session = s,
                        !.body = Reverse(PageDesc(s, limit, (page - 1) * limit))]
    /\ UNCHANGED <<fixedVars, socketVars, vreq, rreq, authVars, chatVars, pureVars>>

\* socket.on('joinSession', sessionId)
JoinSession(c, s) ==
    /\ variant = "session"
    /\ s \notin joined[c]
    /\ joined' = [joined EXCEPT ![c] = @ \cup {s}]
    /\ UNCHANGED <<fixedVars, socketVars, vreq, rreq, authVars, clientUser, sessions, messages, now, req,
                   view, resp, pureVars>>

\* ------------------------------------------- socket client: ChatInterface
\* App.js 816 and 672-677: setCurrentSession(session) for a session
\* of the list, then the effect on currentSession: loadMessages(id) is sent
\* and joinSession is emitted (server.js 92-94: socket.join only; no room is
\* ever left). The list shown is not cleared. One loadMessages per client is
\* in flight at a time.
setCurrentSession(c, s) ==
    /\ variant = "session"
    /\ OwnActiveSession(s, clientUser[c])
    /\ currentSession[c] # s
    /\ loading[c].pc = "idle"
    /\ currentSession' = [currentSession EXCEPT ![c] = s]
    /\ joined' = [joined EXCEPT ![c] = @ \cup {s}]
    /\ loading' = [loading EXCEPT ![c] = [pc |-> "sent", session |-> s, data |-> <<>>]]
    /\ UNCHANGED <<fixedVars, vreq, rreq, authVars, clientUser, sessions, messages, now, req,
                   view, inbox, resp, pureVars>>

\* the server answers the GET of loadMessages (server.js 874-903, default
\* page and limit): the rows it selects now are the response body
LoadMessagesServe(c) ==
    /\ variant = "session"
    /\ loading[c].pc = "sent"
    /\ loading' = [loading EXCEPT ![c] =
                     IF OwnSession(loading[c].session, clientUser[c])
                     THEN [pc |-> "answered", session |-> loading[c].session,
                           data |-> Reverse(PageDesc(loading[c].session, DefaultLimit,
                                                     (DefaultPage - 1) * DefaultLimit))]
                     ELSE [pc |-> "failed", session |-> loading[c].session, data |-> <<>>]]
    /\ UNCHANGED <<fixedVars, vreq, rreq, authVars, clientUser, sessions, messages, now, req,
                   currentSession, inbox, joined, view, resp, pureVars>>

\* App.js 699-706: the response reaches the client, setMessages(messagesData);
\* a failed request is logged and leaves the list alone
LoadMessagesReturn(c) ==
    /\ variant = "session"
    /\ loading[c].pc \in {"answered", "failed"}
    /\ view' = [view EXCEPT ![c] = IF loading[c].pc = "answered" THEN loading[c].data ELSE @]
    /\ loading' = [loading EXCEPT ![c] = LIdle]
    /\ UNCHANGED <<fixedVars, vreq, rreq, authVars, clientUser, sessions, messages, now, req,
                   currentSession, inbox, joined, resp, pureVars>>

\* App.js 664-666: a newMessage event reaches the client,
\* setMessages(prev => [...prev, message])
OnNewMessage(c) ==
    /\ variant = "session"
    /\ inbox[c] # <<>>
    /\ view' = [view EXCEPT ![c] = Append(@, Head(inbox[c]))]
    /\ inbox' = [inbox EXCEPT ![c] = Tail(@)]
    /\ UNCHANGED <<fixedVars, vreq, rreq, authVars, clientUser, sessions, messages, now, req,
                   currentSession, loading, joined, resp, pureVars>>


\* ------------------------------------ session backend: POST /api/chat/message
\* a send handler that goes on to the webhook without storing the user message
WrongSendMessage(c, tk, s, message, dbOk) ==
    /\ variant = "session"
    /\ req[c].pc = "idle"
    /\ authenticateToken(tk).ok
    /\ OwnActiveSession(s, authenticateToken(tk).user)
    /\ Truthy(message)
    /\ RoomForSend
    /\ req' = [req EXCEPT ![c] = [pc |-> "persisted", session |-> s,
                                  user |-> authenticateToken(tk).user, token |-> tk,
                                  text |-> message, umsg |-> 0, calls |-> 0,
                                  first |-> FALSE]]
    /\ UNCHANGED <<messages, now, view, resp>>
    /\ UNCHANGED <<fixedVars, socketVars, vreq, rreq, authVars, clientUser, sessions, joined, pureVars>>

\* From the request to the emit of the user message (server.js 780-805).
\* dbOk: the INSERT of the user message succeeds.
SendMessage(c, tk, s, message, dbOk) ==
    /\ variant = "session"
    /\ req[c].pc = "idle"
    /\ LET a == authenticateToken(tk) IN
       IF ~a.ok
       THEN /\ resp' = Denied("send", a, tk)
            /\ UNCHANGED <<messages, now, req, view, inbox>>
       ELSE IF s = 0 \/ ~Truthy(message)
       THEN /\ resp' = Reply(tk, "send", 400, "Session ID and message are required")
            /\ UNCHANGED <<messages, now, req, view, inbox>>
       ELSE IF ~OwnActiveSession(s, a.user)
       THEN /\ resp' = [Reply(tk, "send", 404, "Session not found")
                            EXCEPT !.cross = Cross(a.user, s)]
            /\ UNCHANGED <<messages, now, req, view, inbox>>
       ELSE IF ~dbOk
       THEN /\ resp' = Reply(tk, "send", 500, "Internal server error")
            /\ UNCHANGED <<messages, now, req, view, inbox>>
       ELSE /\ RoomForSend
            /\ messages' = Append(messages, MessageRow(s, a.user, message, "user", now))
            /\ now' = Tick(now)
            /\ Publish(s, Len(messages) + 1)
            /\ req' = [req EXCEPT ![c] = [pc |-> "persisted", session |-> s, user |-> a.user,
                                          token |-> tk, text |-> message,
                                          umsg |-> Len(messages) + 1,
                                          calls |-> 0, first |-> FALSE]]
            /\ UNCHANGED resp
    /\ UNCHANGED <<fixedVars, currentSession, loading, vreq, rreq, authVars, clientUser, sessions, joined, pureVars>>

\* an end of the handler that skips the UPDATE when the webhook call failed
WrongSendAnswer(c, webhook, bmsg, calls, t, dbOk, out) ==
    /\ sessions' = IF dbOk /\ webhook # "failed"
                   THEN [sessions EXCEPT ![req[c].session].updated_at = t]
                   ELSE sessions
    /\ now' = IF dbOk THEN Tick(t) ELSE t
    /\ resp' = [(IF dbOk /\ logUserActivity # "thrown" THEN Response("send", 200, "")
                 ELSE Response("send", 500, "Internal server error"))
                    EXCEPT !.bearer = req[c].token, !.session = req[c].session,
                           !.umsg = req[c].umsg, !.bmsg = bmsg,
                           !.webhook = webhook, !.calls = calls, !.upstream = out]

\* The end of the handler (server.js 858-865): bump updated_at, log the
\* activity, answer. dbOk: the UPDATE succeeds; otherwise the outer catch
\* answers 500.
SendAnswer(c, webhook, bmsg, calls, t, dbOk, out) ==
    /\ sessions' = IF dbOk THEN [sessions EXCEPT ![req[c].session].updated_at = t]
                   ELSE sessions
    /\ now' = IF dbOk THEN Tick(t) ELSE t
    /\ resp' = [(IF dbOk /\ logUserActivity # "thrown" THEN Response("send", 200, "")
                 ELSE Response("send", 500, "Internal server error"))
                    EXCEPT !.bearer = req[c].token, !.session = req[c].session,
                           !.umsg = req[c].umsg, !.bmsg = bmsg,
                           !.webhook = webhook, !.calls = calls, !.upstream = out]

\* server.js 809-834: the webhook call is issued (or skipped when disabled)
SendCallWebhook(c, dbOk) ==
    /\ variant = "session"
    /\ req[c].pc = "persisted"
    /\ IF config.webhookEnabled
       THEN /\ req' = [req EXCEPT ![c].pc = "calling", ![c].calls = @ + 1]
            /\ UNCHANGED <<sessions, now, resp>>
       ELSE /\ req' = [req EXCEPT ![c] = Idle]
            /\ SendAnswer(c, "none", 0, 0, now, dbOk, NoOutcome)
    /\ UNCHANGED <<fixedVars, socketVars, vreq, rreq, authVars, clientUser, messages, joined, view, pureVars>>

\* response.data of axios: the parsed JSON value, or the raw text
AxiosData(body) == body

\* server.js 836-865: the webhook call returns with outcome out.
\* okBot: the INSERT of the bot message succeeds; okUpd: the UPDATE succeeds.
SendWebhookReturn(c, out, okBot, okUpd) ==
    /\ variant = "session"
    /\ req[c].pc = "calling"
    /\ LET s      == req[c].session
           stored == out.kind = "http" /\ validateStatus(out.status) /\ okBot
           wh     == IF WebhookFailed(out) THEN "failed" ELSE "ok"
       IN  IF stored
           THEN /\ messages' = Append(messages,
                                 MessageRow(s, req[c].user, botMessageText(AxiosData(out.body)),
                                            "bot", now))
                /\ Publish(s, Len(messages) + 1)
                /\ SendAnswer(c, wh, Len(messages) + 1, req[c].calls, Tick(now), okUpd, out)
           ELSE /\ UNCHANGED <<messages, view, inbox>>
                /\ SendAnswer(c, wh, 0, req[c].calls, now, okUpd, out)
    /\ req' = [req EXCEPT ![c] = Idle]
    /\ UNCHANGED <<fixedVars, currentSession, loading, vreq, rreq, authVars, clientUser, joined, pureVars>>


\* --------------------------------------------- document-store client: chat
NewChatTitle == <<"New Chat">>

\* the conversation a client's ChatArea is mounted for (0: none is selected)
Selected(c) == IF joined[c] = {} THEN 0 ELSE CHOOSE s \in joined[c] : TRUE

\* chat page: createNewConversation; ok: the addDoc succeeds
CreateConversation(c, ok) ==
    /\ variant = "docstore"
    /\ Len(sessions) < MaxSessions
    /\ IF ok
       THEN /\ sessions' = Append(sessions, SessionRow(clientUser[c], NewChatTitle, now))
            /\ now' = Tick(now)
            /\ joined' = [joined EXCEPT ![c] = {Len(sessions) + 1}]
            /\ view' = [view EXCEPT ![c] = IF joined[c] = {} THEN <<>> ELSE @]
            /\ resp' = [Response("createConversation", 0, "")
                            EXCEPT !.session = Len(sessions) + 1]
       ELSE /\ UNCHANGED <<sessions, now, joined, view>>
            /\ resp' = Response("createConversation", 0, "Error creating conversation")
    /\ UNCHANGED <<fixedVars, socketVars, vreq, rreq, authVars, clientUser, messages, req, pureVars>>

\* ChatArea mounted for conversationId s: the messages listener is registered
\* (useEffect on [conversationId]); the previous listener is unsubscribed
SubscribeMessages(c, s) ==
    /\ variant = "docstore"
    /\ s \in 1..Len(sessions)
    /\ joined[c] # {s}
    /\ joined' = [joined EXCEPT ![c] = {s}]
    /\ view' = [view EXCEPT ![c] = IF joined[c] = {} THEN <<>> ELSE @]
    /\ UNCHANGED <<fixedVars, socketVars, vreq, rreq, authVars, clientUser, sessions, messages, now, req,
                   resp, pureVars>>

\* the onSnapshot callback of the messages listener: setMessages(msgs)
Snapshot(c) ==
    /\ variant = "docstore"
    /\ joined[c] # {}
    /\ view[c] # MessageIdsOf(Selected(c))
    /\ view' = [view EXCEPT ![c] = MessageIdsOf(Selected(c))]
    /\ UNCHANGED <<fixedVars, socketVars, vreq, rreq, authVars, clientUser, sessions, messages, now, req,
                   joined, resp, pureVars>>

\* chat page: deleteConversation(convId); ok: the deleteDoc succeeds
deleteConversation(c, s, ok) ==
    /\ variant = "docstore"
    /\ s \in 1..Len(sessions)
    /\ IF ok
       THEN /\ sessions' = [sessions EXCEPT ![s] = NoDoc]
            /\ joined' = [joined EXCEPT ![c] = IF @ = {s} THEN {} ELSE @]
            /\ view' = [view EXCEPT ![c] = IF joined[c] = {s} THEN <<>> ELSE @]
            /\ resp' = [Response("deleteConversation", 0, "")
                            EXCEPT !.cross = Cross(clientUser[c], s)]
       ELSE /\ UNCHANGED <<sessions, joined, view>>
            /\ resp' = Response("deleteConversation", 0, "Error deleting conversation")
    /\ UNCHANGED <<fixedVars, socketVars, vreq, rreq, authVars, clientUser, messages, now, req, pureVars>>

\* the end of handleSubmit: what the send did, loading back to false
\* the messages listener of the writing tab fires for its own write before
\* the addDoc promise resolves (local snapshot): the list of client c after
\* c wrote message mid into conversation s
OwnSnapshot(c, s, mid) ==
    [view EXCEPT ![c] = IF joined[c] = {s} THEN Append(MessageIdsOf(s), mid) ELSE @]

SubmitDone(c, s, umsg, bmsg, webhook, calls, out, proxy) ==
    /\ req' = [req EXCEPT ![c] = Idle]
    /\ resp' = [Response("send", 0, "")
                    EXCEPT !.session = s, !.umsg = umsg, !.bmsg = bmsg,
                           !.webhook = webhook, !.calls = calls, !.upstream = out,
                           !.proxy = proxy]

\* the catch block of handleSubmit: the fallback assistant message is added
\* (okFb: that addDoc succeeds), then SubmitDone
SubmitCatch(c, s, umsg, webhook, calls, okFb, out, proxy) ==
    IF okFb
    THEN /\ messages' = Append(messages, MessageRow(s, 0, FallbackText, "assistant", now))
         /\ now' = Tick(now)
         /\ view' = OwnSnapshot(c, s, Len(messages) + 1)
         /\ SubmitDone(c, s, umsg, Len(messages) + 1, webhook, calls, out, proxy)
    ELSE /\ UNCHANGED <<messages, now, view>>
         /\ SubmitDone(c, s, umsg, 0, webhook, calls, out, proxy)

\* ChatArea: handleSubmit up to the write of the user message.
\* ok: the addDoc of the user message succeeds.
handleSubmit(c, input, ok, okFb) ==
    /\ variant = "docstore"
    /\ joined[c] # {}
    /\ req[c].pc = "idle"
    /\ IF ~Truthy(Trim(input))
       THEN /\ resp' = [Response("send", 0, "ignored") EXCEPT !.ran = FALSE]
            /\ UNCHANGED <<messages, now, req, view>>
       ELSE /\ RoomForSend
            /\ IF ok
               THEN /\ messages' = Append(messages,
                                    MessageRow(Selected(c), 0, Trim(input), "user", now))
                    /\ now' = Tick(now)
                    /\ view' = OwnSnapshot(c, Selected(c), Len(messages) + 1)
                    /\ req' = [req EXCEPT ![c] =
                                 [pc |-> "persisted", session |-> Selected(c),
                                  user |-> clientUser[c], token |-> NoToken,
                                  text |-> Trim(input),
                                  umsg |-> Len(messages) + 1, calls |-> 0,
                                  first |-> Len(view[c]) = 0]]
                    /\ UNCHANGED resp
               ELSE SubmitCatch(c, Selected(c), 0, "none", 0, okFb, NoOutcome, 0)
    /\ UNCHANGED <<fixedVars, socketVars, vreq, rreq, authVars, clientUser, sessions, joined, pureVars>>

\* ChatArea: updateConversationTitle(firstMessage); ok: the updateDoc succeeds.
\* The conversation rows after the call.
updateConversationTitle(rows, s, firstMessage, t, ok) ==
    IF ok /\ rows[s].is_active
    THEN [rows EXCEPT ![s].title = TitleOf(firstMessage), ![s].updated_at = t]
    ELSE rows

\* handleSubmit after the user message was written: the title of a first
\* message, the updatedAt bump (okUpd: that updateDoc succeeds, which needs
\* the document to exist) and the call of sendMessageToN8n.
SubmitCall(c, okTitle, okUpd, okFb) ==
    /\ variant = "docstore"
    /\ req[c].pc = "persisted"
    /\ LET s      == req[c].session
           titled == IF req[c].first
                     THEN updateConversationTitle(sessions, s, req[c].text, now, okTitle)
                     ELSE sessions
       IN  IF okUpd /\ sessions[s].is_active
           THEN /\ sessions' = [titled EXCEPT ![s].updated_at = now]
                /\ now' = Tick(now)
                /\ req' = [req EXCEPT ![c].pc = "calling",
                                      ![c].calls = IF config.webhookEnabled THEN 1 ELSE 0]
                /\ UNCHANGED <<messages, resp, view>>
           ELSE /\ sessions' = titled
                /\ SubmitCatch(c, s, req[c].umsg, "none", 0, okFb, NoOutcome, 0)
    /\ UNCHANGED <<fixedVars, socketVars, vreq, rreq, authVars, clientUser, joined, pureVars>>

\* the extraction probing output before message
WrongProxyExtract(data) ==
    IF data.type = "string" THEN data.value
    ELSE IF Truthy(Field(data, "responseBody")) THEN Field(data, "responseBody")
    ELSE IF Truthy(Field(data, "redacted")) THEN Field(data, "redacted")
    ELSE IF Truthy(Field(data, "output")) THEN Field(data, "output")
    ELSE IF Truthy(Field(data, "message")) THEN Field(data, "message")
    ELSE IF Truthy(Field(data, "text")) THEN Field(data, "text")
    ELSE Stringify(data)

\* /api/chat proxy route: the text extracted from the parsed JSON value
ProxyExtract(data) ==
    IF data.type = "string" THEN data.value
    ELSE IF Truthy(Field(data, "responseBody")) THEN Field(data, "responseBody")
    ELSE IF Truthy(Field(data, "redacted")) THEN Field(data, "redacted")
    ELSE IF Truthy(Field(data, "message")) THEN Field(data, "message")
    ELSE IF Truthy(Field(data, "output")) THEN Field(data, "output")
    ELSE IF Truthy(Field(data, "text")) THEN Field(data, "text")
    ELSE Stringify(data)

\* /api/chat proxy route: POST. The response of the route for outcome out of
\* its fetch of the webhook.
ProxyRoute(out) ==
    IF ~config.webhookEnabled
    THEN [status |-> 500, error |-> "N8N webhook URL is not configured", responseBody |-> <<>>]
    ELSE IF out.kind = "timeout"
    THEN [status |-> 500, error |-> "Failed to process chat request", responseBody |-> <<>>]
    ELSE IF ~(out.status >= 200 /\ out.status <= 299)
    THEN [status |-> out.status, error |-> "N8N request failed with status",
          responseBody |-> <<>>]
    ELSE [status |-> 200, error |-> "",
          responseBody |-> IF out.body.json THEN ProxyExtract(out.body) ELSE out.body.value]

\* lib/n8n: sendMessageToN8n, from the response of the proxy route
sendMessageToN8n(r) ==
    IF ~(r.status >= 200 /\ r.status <= 299) THEN [threw |-> TRUE, value |-> <<>>]
    ELSE IF r.error # "" THEN [threw |-> TRUE, value |-> <<>>]
    ELSE IF Truthy(r.responseBody) THEN [threw |-> FALSE, value |-> r.responseBody]
    ELSE [threw |-> FALSE,
          value |-> Stringify(BodyJsonObject(<<[k |-> "responseBody", v |-> r.responseBody]>>))]

\* handleSubmit after sendMessageToN8n settled with outcome out of the webhook.
\* okBot: the addDoc of the assistant message succeeds.
SubmitReturn(c, out, okBot, okFb) ==
    /\ variant = "docstore"
    /\ req[c].pc = "calling"
    /\ LET s  == req[c].session
           r  == sendMessageToN8n(ProxyRoute(out))
           up == IF req[c].calls = 0 THEN NoOutcome ELSE out
           wh == IF req[c].calls = 0 THEN "none"
                 ELSE IF WebhookFailed(out) THEN "failed" ELSE "ok"
       IN  IF ~r.threw /\ okBot
           THEN /\ messages' = Append(messages, MessageRow(s, 0, r.value, "assistant", now))
                /\ now' = Tick(now)
                /\ view' = OwnSnapshot(c, s, Len(messages) + 1)
                /\ SubmitDone(c, s, req[c].umsg, Len(messages) + 1, wh, req[c].calls, up,
                              ProxyRoute(out).status)
           ELSE SubmitCatch(c, s, req[c].umsg, wh, req[c].calls, okFb, up,
                            ProxyRoute(out).status)
    /\ UNCHANGED <<fixedVars, socketVars, vreq, rreq, authVars, clientUser, sessions, joined, pureVars>>

\* ------------------------------------ session backend: profile and themes
Themes == {"light", "dark"}

\* GET /api/user/profile
GetProfile(c, tk) ==
    /\ variant = "session"
    /\ LET a == authenticateToken(tk) IN
       IF ~a.ok
       THEN resp' = Denied("profile", a, tk)
       ELSE resp' = [Reply(tk, "profile", 200, "") EXCEPT !.input = <<users[a.user].email>>]
    /\ UNCHANGED <<fixedVars, socketVars, vreq, rreq, authVars, chatVars, pureVars>>

\* PUT /api/user/theme
PutTheme(c, tk, theme) ==
    /\ variant = "session"
    /\ LET a == authenticateToken(tk) IN
       IF ~a.ok
       THEN /\ resp' = Denied("theme", a, tk)
            /\ UNCHANGED users
       ELSE IF theme = ""
       THEN /\ resp' = Reply(tk, "theme", 400, "Theme is required")
            /\ UNCHANGED users
       ELSE IF theme \notin Themes
       THEN /\ resp' = Reply(tk, "theme", 400, "Invalid theme")
            /\ UNCHANGED users
       ELSE /\ users' = [users EXCEPT ![a.user].theme_preference = theme]
            /\ resp' = Reply(tk, "theme", 200, "")
    /\ UNCHANGED <<fixedVars, socketVars, vreq, rreq, issued, evTokens, chatVars, pureVars>>

\* GET /api/themes
GetThemes(c, tk) ==
    /\ variant = "session"
    /\ LET a == authenticateToken(tk) IN
       IF ~a.ok
       THEN resp' = Denied("themes", a, tk)
       ELSE resp' = Reply(tk, "themes", 200, "")
    /\ UNCHANGED <<fixedVars, socketVars, vreq, rreq, authVars, chatVars, pureVars>>


\* ------------------------------------------------------------------ inputs
UserRow(email, hash, first, last, verified) ==
    [email |-> email, password_hash |-> hash, first_name |-> first, last_name |-> last,
     email_verified |-> verified, is_active |-> TRUE, last_login |-> 0,
     theme_preference |-> "light"]

\* bcrypt.hash / bcrypt.compare
BcryptHash(password) == <<"$2b$">> \o password
BcryptCompare(password, hash) == hash = BcryptHash(password)

ChatTexts == {<<>>, <<" ">>, <<"a">>, <<" ", "a">>}
ThemeInputs == {"", "dark", "neon"}
SessionInputs == 0..MaxSessions

\* the outcomes of a webhook call
ReplyOk == Http(200, BodyJsonString(<<"r">>))
Outcomes ==
    {Timeout, ReplyOk, Http(404, BodyText(<<"e">>)), Http(500, BodyText(<<"e">>))}

\* the bearer tokens a client can present: none, one that does not verify,
\* the one its user was issued at login, and a signed one whose user row is
\* gone
Tokens(c) == {NoToken, ExpiredOf(clientUser[c]), TokenOf(clientUser[c]),
              TokenOf(Len(users) + 1)}

\* ------------------------------------------------ specification: send flow
\* Two registered, verified users, each logged in at one client; no
\* conversation exists yet.
InitChat ==
    /\ variant \in {"session", "docstore"}
    /\ config \in {[requireEmailVerification |-> TRUE, emailVerification |-> TRUE,
                    allowedEmailDomains |-> <<"ok.com">>, expiryHours |-> 1, webhookEnabled |-> w] :
                      w \in BOOLEAN}
    /\ users = <<UserRow(<<"alice", "ok.com">>, BcryptHash(Rep("p", MinPasswordLength)),
                         <<"A">>, <<"L">>, TRUE),
                 UserRow(<<"bob", "ok.com">>, BcryptHash(Rep("q", MinPasswordLength)),
                         <<"B">>, <<"L">>, TRUE)>>
    /\ issued = {1, 2}
    /\ evTokens = <<>>
    /\ clientUser = [c \in Clients |-> c]
    /\ sessions = <<>>
    /\ messages = <<>>
    /\ now = 1
    /\ ticking = FALSE
    /\ logsOk = TRUE
    /\ capacity = MaxMessages
    /\ req = [c \in Clients |-> Idle]
    /\ vreq = [c \in Clients |-> VIdle]
    /\ rreq = [c \in Clients |-> RIdle]
    /\ latency = FALSE
    /\ currentSession = [c \in Clients |-> 0]
    /\ loading = [c \in Clients |-> LIdle]
    /\ inbox = [c \in Clients |-> <<>>]
    /\ joined = [c \in Clients |-> {}]
    /\ view = [c \in Clients |-> <<>>]
    /\ resp = NoResp
    /\ tIn = <<>>
    /\ tOut = <<>>

Init == InitChat

Next ==
    \/ \E c \in Clients : CreateSession(c, TokenOf(clientUser[c]))
    \/ \E c \in Clients, s \in 1..MaxSessions : DeleteSession(c, TokenOf(clientUser[c]), s)
    \/ \E c \in Clients, s \in SessionInputs, m \in ChatTexts, dbOk \in BOOLEAN :
            SendMessage(c, TokenOf(clientUser[c]), s, m, dbOk)
    \/ \E c \in Clients, dbOk \in BOOLEAN : SendCallWebhook(c, dbOk)
    \/ \E c \in Clients, out \in Outcomes, okBot \in BOOLEAN, okUpd \in BOOLEAN :
            SendWebhookReturn(c, out, okBot, okUpd)
    \/ \E c \in Clients, ok \in BOOLEAN : CreateConversation(c, ok)
    \/ \E c \in Clients, s \in 1..MaxSessions, ok \in BOOLEAN : deleteConversation(c, s, ok)
    \/ \E c \in Clients, m \in ChatTexts, ok \in BOOLEAN, okFb \in BOOLEAN :
            handleSubmit(c, m, ok, okFb)
    \/ \E c \in Clients, okTitle \in BOOLEAN, okUpd \in BOOLEAN, okFb \in BOOLEAN :
            SubmitCall(c, okTitle, okUpd, okFb)
    \/ \E c \in Clients, out \in Outcomes, okBot \in BOOLEAN, okFb \in BOOLEAN :
            SubmitReturn(c, out, okBot, okFb)

Spec == Init /\ [][Next]_vars

\* ------------------------------------- specification: access to the routes
\* Every protected route with every token; the webhook answers, the store
\* accepts every write.
NextAccess ==
    \/ \E c \in Clients : \E tk \in Tokens(c) : CreateSession(c, tk)
    \/ \E c \in Clients : \E tk \in Tokens(c) : GetSessions(c, tk)
    \/ \E c \in Clients, s \in 1..MaxSessions : \E tk \in Tokens(c) : DeleteSession(c, tk, s)
    \/ \E c \in Clients, s \in 1..MaxSessions : \E tk \in Tokens(c) :
            GetMessages(c, tk, s, DefaultPage, DefaultLimit)
    \/ \E c \in Clients, s \in 1..MaxSessions : \E tk \in Tokens(c) :
            SendMessage(c, tk, s, <<"a">>, TRUE)
    \/ \E c \in Clients : SendCallWebhook(c, TRUE)
    \/ \E c \in Clients : SendWebhookReturn(c, ReplyOk, TRUE, TRUE)
    \/ \E c \in Clients : \E tk \in Tokens(c) : GetProfile(c, tk)
    \/ \E c \in Clients, th \in ThemeInputs : \E tk \in Tokens(c) : PutTheme(c, tk, th)
    \/ \E c \in Clients : \E tk \in Tokens(c) : GetThemes(c, tk)
    \/ \E c \in Clients : CreateConversation(c, TRUE)
    \/ \E c \in Clients, s \in 1..MaxSessions : deleteConversation(c, s, TRUE)
    \/ \E c \in Clients : handleSubmit(c, <<"a">>, TRUE, TRUE)
    \/ \E c \in Clients : SubmitCall(c, TRUE, TRUE, TRUE)
    \/ \E c \in Clients : SubmitReturn(c, ReplyOk, TRUE, TRUE)

SpecAccess == InitChat /\ [][NextAccess]_vars


\* --------------------------------------- specification: realtime delivery
\* The socket rooms and the message listeners, with sends that succeed.
NextRealtime ==
    \/ \E c \in Clients : CreateSession(c, TokenOf(clientUser[c]))
    \/ \E c \in Clients, s \in 1..MaxSessions : JoinSession(c, s)
    \/ \E c \in Clients, s \in 1..MaxSessions :
            SendMessage(c, TokenOf(clientUser[c]), s, <<"a">>, TRUE)
    \/ \E c \in Clients : SendCallWebhook(c, TRUE)
    \/ \E c \in Clients, out \in {Timeout, ReplyOk} : SendWebhookReturn(c, out, TRUE, TRUE)
    \/ \E c \in Clients : CreateConversation(c, TRUE)
    \/ \E c \in Clients, s \in 1..MaxSessions : SubscribeMessages(c, s)
    \/ \E c \in Clients : Snapshot(c)
    \/ \E c \in Clients : handleSubmit(c, <<"a">>, TRUE, TRUE)
    \/ \E c \in Clients : SubmitCall(c, TRUE, TRUE, TRUE)
    \/ \E c \in Clients, out \in {Timeout, ReplyOk} : SubmitReturn(c, out, TRUE, TRUE)

SpecRealtime == InitChat /\ [][NextRealtime]_vars


\* ------------------------------------------------------ register and login
\* An email is the sequence of its '@'-separated parts (<<>>: missing or
\* empty); a domain is one string.

\* String.prototype.trim / toLowerCase on the domains that occur
DomainTrim(d) == IF d = " OK.COM" THEN "OK.COM" ELSE d
DomainLower(d) == IF d = "OK.COM" THEN "ok.com" ELSE d
Undefined == "undefined"

\* email.split('@')[1]
DomainOf(email) == IF Len(email) >= 2 THEN email[2] ELSE Undefined

Includes(list, d) == \E i \in 1..Len(list) : list[i] = d

\* a domain check that lets every email pass
WrongIsEmailDomainAllowed(email) == TRUE

\* server.js: isEmailDomainAllowed
isEmailDomainAllowed(email) == Includes(config.allowedEmailDomains, DomainOf(email))

\* lib/auth-context: getAllowedDomains; config.allowedEmailDomains holds the
\* comma-separated entries of NEXT_PUBLIC_ALLOWED_DOMAINS
getAllowedDomains ==
    LET lowered == [i \in 1..Len(config.allowedEmailDomains) |->
                        DomainLower(DomainTrim(config.allowedEmailDomains[i]))]
    IN  SelectSeq(lowered, LAMBDA d : d # "")

\* lib/auth-context: isAllowedDomain
isAllowedDomain(email) ==
    IF Len(getAllowedDomains) = 0 THEN TRUE
    ELSE Includes(getAllowedDomains,
                  IF DomainOf(email) = Undefined THEN Undefined
                  ELSE DomainLower(DomainOf(email)))

UserWithEmail(email) == {u \in 1..Len(users) : users[u].email = email}
ActiveUserWithEmail(email) == {u \in UserWithEmail(email) : users[u].is_active}

DomainNotAllowed == "Email domain not allowed"
AllowedDomainsOnly == "allowed-domains-only"

\* server.js: app.post('/api/auth/register')
PostRegister(email, password, firstName, lastName) ==
    /\ variant = "session"
    /\ LET answer(status, error) ==
               [Response("register", status, error)
                    EXCEPT !.input = <<email, password, firstName, lastName>>]
       IN
       IF ~Truthy(email) \/ ~Truthy(password) \/ ~Truthy(firstName) \/ ~Truthy(lastName)
       THEN /\ resp' = answer(400, "All fields are required")
            /\ UNCHANGED authVars
       ELSE IF ~isEmailDomainAllowed(email)
       THEN /\ resp' = answer(400, DomainNotAllowed)
            /\ UNCHANGED authVars
       ELSE IF Len(password) < MinPasswordLength
       THEN /\ resp' = answer(400, "Password must be at least 8 characters long")
            /\ UNCHANGED authVars
       ELSE IF UserWithEmail(email) # {}
       THEN /\ resp' = [answer(400, "User already exists") EXCEPT !.lookups = 1]
            /\ UNCHANGED authVars
       ELSE /\ Len(users) < MaxUsers
            /\ users' = Append(users, UserRow(email, BcryptHash(password), firstName,
                                              lastName, ~config.requireEmailVerification))
            /\ evTokens' = IF config.emailVerification /\ config.requireEmailVerification
                           THEN Append(evTokens, [user_id |-> Len(users) + 1,
                                                  token |-> Len(evTokens) + 1,
                                                  expires_at |-> now + config.expiryHours,
                                                  used |-> FALSE])
                           ELSE evTokens
            /\ resp' = IF logAudit # "thrown" /\ logUserActivity # "thrown"
                       THEN [answer(201, "") EXCEPT !.lookups = 1]
                       ELSE [answer(500, "Internal server error") EXCEPT !.lookups = 1]
            /\ UNCHANGED issued
    /\ UNCHANGED <<fixedVars, socketVars, vreq, rreq, chatVars, pureVars>>

RegisterAnswer(r, status, error) ==
    [Response("register", status, error)
        EXCEPT !.input = <<r.email, r.password, r.firstName, r.lastName>>, !.lookups = 1]

\* the route above for requests that overlap, in two steps. First step
\* (server.js 231-249): the checks of the body and the SELECT of the email.
RegisterCheck(c, email, password, firstName, lastName) ==
    /\ variant = "session"
    /\ rreq[c].pc = "idle"
    /\ LET r == [pc |-> "checked", email |-> email, password |-> password,
                 firstName |-> firstName, lastName |-> lastName]
       IN
       IF ~Truthy(email) \/ ~Truthy(password) \/ ~Truthy(firstName) \/ ~Truthy(lastName)
       THEN /\ resp' = [RegisterAnswer(r, 400, "All fields are required") EXCEPT !.lookups = 0]
            /\ UNCHANGED rreq
       ELSE IF ~isEmailDomainAllowed(email)
       THEN /\ resp' = [RegisterAnswer(r, 400, DomainNotAllowed) EXCEPT !.lookups = 0]
            /\ UNCHANGED rreq
       ELSE IF Len(password) < MinPasswordLength
       THEN /\ resp' = [RegisterAnswer(r, 400, "Password must be at least 8 characters long")
                            EXCEPT !.lookups = 0]
            /\ UNCHANGED rreq
       ELSE IF UserWithEmail(email) # {}
       THEN /\ resp' = RegisterAnswer(r, 400, "User already exists")
            /\ UNCHANGED rreq
       ELSE /\ rreq' = [rreq EXCEPT ![c] = r]
            /\ UNCHANGED resp
    /\ UNCHANGED <<fixedVars, socketVars, vreq, authVars, chatVars, pureVars>>

\* an INSERT into a users table whose email column is not UNIQUE
WrongEmailUnique(email) == TRUE

\* part_004 4-6: email VARCHAR(255) UNIQUE NOT NULL; whether the INSERT of a
\* row with this email passes the constraint
EmailUnique(email) == UserWithEmail(email) = {}

\* Second step (server.js 251-300): the INSERT of the user, which the UNIQUE
\* constraint of users.email can refuse (then the catch block answers 500),
\* the verification token, the log calls and the answer.
RegisterInsert(c) ==
    /\ variant = "session"
    /\ rreq[c].pc = "checked"
    /\ IF ~EmailUnique(rreq[c].email)
       THEN /\ resp' = RegisterAnswer(rreq[c], 500, "Internal server error")
            /\ UNCHANGED authVars
       ELSE /\ Len(users) < MaxUsers
            /\ users' = Append(users, UserRow(rreq[c].email, BcryptHash(rreq[c].password),
                                              rreq[c].firstName, rreq[c].lastName,
                                              ~config.requireEmailVerification))
            /\ evTokens' = IF config.emailVerification /\ config.requireEmailVerification
                           THEN Append(evTokens, [user_id |-> Len(users) + 1,
                                                  token |-> Len(evTokens) + 1,
                                                  expires_at |-> now + config.expiryHours,
                                                  used |-> FALSE])
                           ELSE evTokens
            /\ resp' = IF logAudit # "thrown" /\ logUserActivity # "thrown"
                       THEN RegisterAnswer(rreq[c], 201, "")
                       ELSE RegisterAnswer(rreq[c], 500, "Internal server error")
            /\ UNCHANGED issued
    /\ rreq' = [rreq EXCEPT ![c] = RIdle]
    /\ UNCHANGED <<fixedVars, socketVars, vreq, chatVars, pureVars>>

\* lib/auth-context: register; fbOk: Firebase accepts the new account
register(email, password, displayName, fbOk) ==
    /\ variant = "docstore"
    /\ LET answer(error) ==
               [Response("register", 0, error)
                    EXCEPT !.input = <<email, password, displayName>>]
       IN
       IF ~isAllowedDomain(email)
       THEN /\ resp' = answer(AllowedDomainsOnly)
            /\ UNCHANGED authVars
       ELSE IF ~fbOk \/ UserWithEmail(email) # {} \/ Len(email) < 2
       THEN /\ resp' = answer("auth/error")
            /\ UNCHANGED authVars
       ELSE /\ Len(users) < MaxUsers
            /\ users' = Append(users, UserRow(email, BcryptHash(password), displayName,
                                              <<>>, TRUE))
            /\ resp' = answer("")
            /\ UNCHANGED <<issued, evTokens>>
    /\ UNCHANGED <<fixedVars, socketVars, vreq, rreq, chatVars, pureVars>>


sessionVars == <<clientUser, sessions, messages, req, joined, view>>

LoginAnswer(email, password, status, error, lookups) ==
    [Response("login", status, error)
        EXCEPT !.input = <<email, password>>, !.lookups = lookups]

\* the login route comparing the password before it looks at email_verified
WrongOrderPostLogin(email, password) ==
    /\ variant = "session"
    /\ LET found == ActiveUserWithEmail(email)
           user == CHOOSE u \in found : TRUE
       IN
       IF ~Truthy(email) \/ ~Truthy(password)
       THEN /\ resp' = LoginAnswer(email, password, 400, "Email and password are required", 0)
            /\ UNCHANGED <<authVars, now>>
       ELSE IF found = {}
       THEN /\ resp' = LoginAnswer(email, password, 401, "Invalid credentials", 1)
            /\ UNCHANGED <<authVars, now>>
       ELSE IF ~BcryptCompare(password, users[user].password_hash)
       THEN /\ resp' = LoginAnswer(email, password, 401, "Invalid credentials", 1)
            /\ UNCHANGED <<authVars, now>>
       ELSE IF config.requireEmailVerification /\ ~users[user].email_verified
       THEN /\ resp' = [LoginAnswer(email, password, 403,
                                    "Please verify your email before logging in", 1)
                            EXCEPT !.code = "EMAIL_NOT_VERIFIED"]
            /\ UNCHANGED <<authVars, now>>
       ELSE /\ users' = [users EXCEPT ![user].last_login = now]
            /\ now' = Tick(now)
            /\ issued' = issued \cup {user}
            /\ resp' = IF logUserActivity # "thrown"
                       THEN [LoginAnswer(email, password, 200, "", 1)
                                EXCEPT !.token = TokenOf(user)]
                       ELSE LoginAnswer(email, password, 500, "Internal server error", 1)
            /\ UNCHANGED evTokens
    /\ UNCHANGED <<fixedVars, socketVars, vreq, rreq, sessionVars, pureVars>>

\* the login route without its check of the two fields
UncheckedPostLogin(email, password) ==
    /\ variant = "session"
    /\ LET found == ActiveUserWithEmail(email)
           user == CHOOSE u \in found : TRUE
       IN
       IF found = {}
       THEN /\ resp' = LoginAnswer(email, password, 401, "Invalid credentials", 1)
            /\ UNCHANGED <<authVars, now>>
       ELSE IF config.requireEmailVerification /\ ~users[user].email_verified
       THEN /\ resp' = [LoginAnswer(email, password, 403,
                                    "Please verify your email before logging in", 1)
                            EXCEPT !.code = "EMAIL_NOT_VERIFIED"]
            /\ UNCHANGED <<authVars, now>>
       ELSE IF ~BcryptCompare(password, users[user].password_hash)
       THEN /\ resp' = LoginAnswer(email, password, 401, "Invalid credentials", 1)
            /\ UNCHANGED <<authVars, now>>
       ELSE /\ users' = [users EXCEPT ![user].last_login = now]
            /\ now' = Tick(now)
            /\ issued' = issued \cup {user}
            /\ resp' = IF logUserActivity # "thrown"
                       THEN [LoginAnswer(email, password, 200, "", 1)
                                EXCEPT !.token = TokenOf(user)]
                       ELSE LoginAnswer(email, password, 500, "Internal server error", 1)
            /\ UNCHANGED evTokens
    /\ UNCHANGED <<fixedVars, socketVars, vreq, rreq, sessionVars, pureVars>>

\* server.js: app.post('/api/auth/login')
PostLogin(email, password) ==
    /\ variant = "session"
    /\ LET found == ActiveUserWithEmail(email)
           user == CHOOSE u \in found : TRUE
       IN
       IF ~Truthy(email) \/ ~Truthy(password)
       THEN /\ resp' = LoginAnswer(email, password, 400, "Email and password are required", 0)
            /\ UNCHANGED <<authVars, now>>
       ELSE IF found = {}
       THEN /\ resp' = LoginAnswer(email, password, 401, "Invalid credentials", 1)
            /\ UNCHANGED <<authVars, now>>
       ELSE IF config.requireEmailVerification /\ ~users[user].email_verified
       THEN /\ resp' = [LoginAnswer(email, password, 403,
                                    "Please verify your email before logging in", 1)
                            EXCEPT !.code = "EMAIL_NOT_VERIFIED"]
            /\ UNCHANGED <<authVars, now>>
       ELSE IF ~BcryptCompare(password, users[user].password_hash)
       THEN /\ resp' = LoginAnswer(email, password, 401, "Invalid credentials", 1)
            /\ UNCHANGED <<authVars, now>>
       ELSE /\ users' = [users EXCEPT ![user].last_login = now]
            /\ now' = Tick(now)
            /\ issued' = issued \cup {user}
            /\ resp' = IF logUserActivity # "thrown"
                       THEN [LoginAnswer(email, password, 200, "", 1)
                                EXCEPT !.token = TokenOf(user)]
                       ELSE LoginAnswer(email, password, 500, "Internal server error", 1)
            /\ UNCHANGED evTokens
    /\ UNCHANGED <<fixedVars, socketVars, vreq, rreq, sessionVars, pureVars>>

\* ------------------------------------------------------------ verify-email
\* the token value that no row holds, and the absent query parameter
NoVerifyToken == 0

VerifyAnswer(t, status, title) ==
    [Response("verify", status, "") EXCEPT !.code = title, !.vtoken = t]

\* no row of email_verification_tokens holds the token value t: it was never
\* issued, or its row was deleted (a deleted row keeps its place with user 0)
NoTokenRow(t) == t \notin 1..Len(evTokens) \/ evTokens[t].user_id = 0

\* auth.js 41-80: the checks on the row the SELECT returned (no row, expired,
\* already used)
VerifyRejects(t) ==
    \/ NoTokenRow(t)
    \/ now > evTokens[t].expires_at
    \/ evTokens[t].used

\* auth.js 7-80, router.get('/verify-email'): BEGIN, the SELECT of the token
\* row joined with its user, and the checks on that row
VerifySelect(c, t) ==
    /\ variant = "session"
    /\ vreq[c].pc = "idle"
    /\ IF t = NoVerifyToken
       THEN /\ resp' = VerifyAnswer(t, 400, "Invalid Verification Link")
            /\ UNCHANGED vreq
       ELSE IF VerifyRejects(t)
       THEN /\ resp' = VerifyAnswer(t, 400,
                            IF NoTokenRow(t) THEN "Invalid Verification Link"
                            ELSE IF now > evTokens[t].expires_at
                            THEN "Verification Link Expired"
                            ELSE "Already Verified")
            /\ UNCHANGED vreq
       ELSE /\ vreq' = [vreq EXCEPT ![c] =
                            [pc |-> "selected", token |-> t, user |-> evTokens[t].user_id,
                             verified |-> users[evTokens[t].user_id].email_verified]]
            /\ UNCHANGED resp
    /\ UNCHANGED <<fixedVars, socketVars, rreq, authVars, chatVars, pureVars>>

\* auth.js 82-149: the UPDATEs and the COMMIT of the transaction, the welcome
\* email and the answer. okDb: the statements succeed (otherwise ROLLBACK and
\* 500); okMail: the welcome email is sent.
VerifyCommit(c, okDb, okMail) ==
    /\ variant = "session"
    /\ vreq[c].pc = "selected"
    /\ LET t == vreq[c].token
           u == vreq[c].user
       IN  IF ~okDb
           THEN /\ resp' = VerifyAnswer(t, 500, "Verification Failed")
                /\ UNCHANGED <<users, evTokens>>
           ELSE IF vreq[c].verified
           THEN /\ evTokens' = [evTokens EXCEPT ![t].used = TRUE]
                /\ resp' = VerifyAnswer(t, 200, "Already Verified")
                /\ UNCHANGED users
           ELSE /\ users' = [users EXCEPT ![u].email_verified = TRUE]
                /\ evTokens' = [evTokens EXCEPT ![t].used = TRUE]
                /\ resp' = IF sendWelcomeEmail(okMail) # "thrown"
                           THEN [VerifyAnswer(t, 200, "Email Verified Successfully")
                                    EXCEPT !.welcome = sendWelcomeEmail(okMail)]
                           ELSE VerifyAnswer(t, 500, "Verification Failed")
    /\ vreq' = [vreq EXCEPT ![c] = VIdle]
    /\ UNCHANGED <<fixedVars, socketVars, rreq, issued, chatVars, pureVars>>

ResendAnswer(email, status, error, t) ==
    [Response("resend", status, error) EXCEPT !.input = <<email>>, !.vtoken = t]

\* the rows of user u that a verification could still redeem
UnusedTokens(u) ==
    {t \in 1..Len(evTokens) : evTokens[t].user_id = u /\ ~evTokens[t].used}

ResendInFlight == {c \in Clients : rreq[c].pc \in {"resend-selected", "resend-deleted"}}

\* auth.js 152-186, router.post('/resend-verification'): the SELECT of the
\* user and the checks on it
ResendSelect(c, email) ==
    /\ variant = "session"
    /\ rreq[c].pc = "idle"
    /\ IF ~Truthy(email)
       THEN /\ resp' = ResendAnswer(email, 400, "Email is required", NoVerifyToken)
            /\ UNCHANGED rreq
       ELSE IF UserWithEmail(email) = {}
       THEN /\ resp' = ResendAnswer(email, 404, "User not found", NoVerifyToken)
            /\ UNCHANGED rreq
       ELSE IF \E u \in UserWithEmail(email) : users[u].email_verified
       THEN /\ resp' = ResendAnswer(email, 400, "Email is already verified", NoVerifyToken)
            /\ UNCHANGED rreq
       ELSE /\ Len(evTokens) + Cardinality(ResendInFlight) < MaxTokens
            /\ rreq' = [rreq EXCEPT ![c] = [RIdle EXCEPT !.pc = "resend-selected",
                                                     !.email = email]]
            /\ UNCHANGED resp
    /\ UNCHANGED <<fixedVars, socketVars, vreq, authVars, chatVars, pureVars>>

\* auth.js 188-192: DELETE FROM email_verification_tokens WHERE user_id = $1
\* AND is_used = false, a statement of its own (no transaction is open)
ResendDelete(c) ==
    /\ variant = "session"
    /\ rreq[c].pc = "resend-selected"
    /\ LET u == CHOOSE v \in UserWithEmail(rreq[c].email) : TRUE IN
       evTokens' = [t \in 1..Len(evTokens) |->
                        IF t \in UnusedTokens(u)
                        THEN [evTokens[t] EXCEPT !.user_id = 0]
                        ELSE evTokens[t]]
    /\ rreq' = [rreq EXCEPT ![c].pc = "resend-deleted"]
    /\ UNCHANGED <<fixedVars, socketVars, vreq, users, issued, chatVars, resp, pureVars>>

\* auth.js 194-225: the INSERT of the new token, the verification email and
\* the answer. okMail: the email is sent (otherwise the catch answers 500; the
\* row stays). The token lives one expiry period.
ResendInsert(c, okMail) ==
    /\ variant = "session"
    /\ rreq[c].pc = "resend-deleted"
    /\ LET u == CHOOSE v \in UserWithEmail(rreq[c].email) : TRUE IN
       evTokens' = Append(evTokens, [user_id |-> u, token |-> Len(evTokens) + 1,
                                      expires_at |-> now + config.expiryHours,
                                      used |-> FALSE])
    /\ resp' = IF okMail
               THEN ResendAnswer(rreq[c].email, 200, "", Len(evTokens) + 1)
               ELSE ResendAnswer(rreq[c].email, 500, "Failed to resend verification email",
                                 Len(evTokens) + 1)
    /\ rreq' = [rreq EXCEPT ![c] = RIdle]
    /\ UNCHANGED <<fixedVars, socketVars, vreq, users, issued, chatVars, pureVars>>

\* time passes while a verification token can still expire
Advance ==
    /\ ticking
    /\ \E t \in 1..Len(evTokens) : now <= evTokens[t].expires_at
    /\ now' = now + 1
    /\ UNCHANGED <<fixedVars, socketVars, vreq, rreq, authVars, clientUser, sessions, messages, req,
                   joined, view, resp, pureVars>>


\* ------------------------------------- specification: register and login
AuthEmails == {<<>>, <<"alice">>, <<"alice", "ok.com">>, <<"bob", "ok.com">>,
               <<"bob", "OK.COM">>, <<"eve", "evil.com">>}
AuthPasswords == {<<>>, Rep("p", MinPasswordLength - 1), Rep("p", MinPasswordLength),
                  Rep("q", MinPasswordLength)}
AuthNames == {<<>>, <<"N">>}

\* the allow-lists: the JSON array of config.json, the split of the
\* environment variable (of the empty string: one empty entry)
AllowLists(v) ==
    IF v = "session" THEN {<<>>, <<"ok.com">>, <<"OK.COM">>}
    ELSE {<<"">>, <<"ok.com">>, <<" OK.COM", "">>}

InitAuth ==
    /\ variant \in {"session", "docstore"}
    /\ config \in {[requireEmailVerification |-> r, emailVerification |-> f,
                    allowedEmailDomains |-> l, expiryHours |-> 1, webhookEnabled |-> TRUE] :
                      r \in BOOLEAN, f \in BOOLEAN,
                      l \in AllowLists("session") \cup AllowLists("docstore")}
    /\ config.allowedEmailDomains \in AllowLists(variant)
    /\ variant = "docstore" => ~config.requireEmailVerification /\ ~config.emailVerification
    /\ users = <<>>
    /\ issued = {}
    /\ evTokens = <<>>
    /\ clientUser = [c \in Clients |-> 0]
    /\ sessions = <<>>
    /\ messages = <<>>
    /\ now = 1
    /\ ticking = FALSE
    /\ logsOk = TRUE
    /\ capacity = MaxMessages
    /\ req = [c \in Clients |-> Idle]
    /\ vreq = [c \in Clients |-> VIdle]
    /\ rreq = [c \in Clients |-> RIdle]
    /\ latency = FALSE
    /\ currentSession = [c \in Clients |-> 0]
    /\ loading = [c \in Clients |-> LIdle]
    /\ inbox = [c \in Clients |-> <<>>]
    /\ joined = [c \in Clients |-> {}]
    /\ view = [c \in Clients |-> <<>>]
    /\ resp = NoResp
    /\ tIn = <<>>
    /\ tOut = <<>>

NextAuth ==
    \/ \E e \in AuthEmails, p \in AuthPasswords, f \in AuthNames, l \in AuthNames :
            PostRegister(e, p, f, l)
    \/ \E e \in AuthEmails, p \in AuthPasswords : PostLogin(e, p)
    \/ \E e \in AuthEmails, fbOk \in BOOLEAN :
            register(e, Rep("p", MinPasswordLength), <<"N">>, fbOk)

SpecAuth == InitAuth /\ [][NextAuth]_vars


\* ------------------------------------ specification: the title derivation
\* First messages of every length up to MaxTextLen, of two kinds: letters
\* that alternate, and dots only (so that a title's ellipsis and the text's
\* own dots are told apart by position only).
Alternating(n) == [i \in 1..n |-> IF i % 2 = 1 THEN "a" ELSE "b"]
TitleInputs == {Alternating(n) : n \in 0..MaxTextLen} \cup {Rep(".", n) : n \in 0..MaxTextLen}

InitTitle ==
    /\ variant = "title"
    /\ config = [requireEmailVerification |-> FALSE, emailVerification |-> FALSE,
                 allowedEmailDomains |-> <<>>, expiryHours |-> 1, webhookEnabled |-> FALSE]
    /\ users = <<>>
    /\ issued = {}
    /\ evTokens = <<>>
    /\ clientUser = [c \in Clients |-> 0]
    /\ sessions = <<>>
    /\ messages = <<>>
    /\ now = 1
    /\ ticking = FALSE
    /\ logsOk = TRUE
    /\ capacity = MaxMessages
    /\ req = [c \in Clients |-> Idle]
    /\ vreq = [c \in Clients |-> VIdle]
    /\ rreq = [c \in Clients |-> RIdle]
    /\ latency = FALSE
    /\ currentSession = [c \in Clients |-> 0]
    /\ loading = [c \in Clients |-> LIdle]
    /\ inbox = [c \in Clients |-> <<>>]
    /\ joined = [c \in Clients |-> {}]
    /\ view = [c \in Clients |-> <<>>]
    /\ resp = NoResp
    /\ tIn \in TitleInputs
    /\ tOut = <<>>

\* the title updateConversationTitle writes for the first message tIn
ComputeTitle ==
    /\ variant = "title"
    /\ resp.op = "none"
    /\ tOut' = TitleOf(tIn)
    /\ resp' = Response("title", 0, "")
    /\ UNCHANGED <<fixedVars, socketVars, vreq, rreq, authVars, chatVars, tIn>>

NextTitle == ComputeTitle

SpecTitle == InitTitle /\ [][NextTitle]_vars


\* =================================================================== claims

\* ---------------------------------------------------------------------- C1
\* C1 (Spec): in both variants, once the webhook call of a send has been
\* attempted the user message of that send is stored in its conversation
\* with the text of the send, and it is still stored when the send has
\* finished, whatever became of the webhook call.
C1_UserMessageBeforeWebhook ==
    /\ \A c \in Clients :
          req[c].calls > 0 =>
             /\ req[c].umsg \in 1..Len(messages)
             /\ messages[req[c].umsg].session_id = req[c].session
             /\ messages[req[c].umsg].type = "user"
             /\ messages[req[c].umsg].text = req[c].text
             /\ req[c].text # <<>>
    /\ (resp.op = "send" /\ resp.calls > 0) =>
             /\ resp.umsg \in 1..Len(messages)
             /\ messages[resp.umsg].session_id = resp.session
             /\ messages[resp.umsg].type = "user"

\* a send has finished whose webhook call failed; its user message is stored
C1_Witness ==
    /\ resp.op = "send"
    /\ resp.webhook = "failed"
    /\ resp.calls > 0
    /\ resp.umsg \in 1..Len(messages)

\* ---------------------------------------------------------------------- C2
\* C2 (SpecRealtime): whenever the webhook call of a finished send failed, an
\* assistant message with exactly the fallback text is stored in the
\* conversation of the send. (The store accepts every write here.)
C2_FallbackOnWebhookFailure ==
    (resp.op = "send" /\ resp.webhook = "failed") =>
        \E i \in 1..Len(messages) :
            /\ messages[i].session_id = resp.session
            /\ messages[i].type \in {"bot", "assistant"}
            /\ messages[i].text = FallbackText

\* ---------------------------------------------------------------------- C3
\* C3 (SpecAccess): every request of a user that names a conversation of
\* another user is answered not-found (404) and leaves the conversations and
\* the messages as they were.
C3_CrossUserNotFound ==
    /\ [](resp.cross => resp.status = 404)
    /\ [][(resp'.cross /\ resp' # resp) => (sessions' = sessions /\ messages' = messages)]_vars

\* ---------------------------------------------------------------------- C4
\* C4 (SpecRealtime): every message a client has been delivered (newMessage
\* events, message snapshots) belongs to a conversation of the user logged in
\* at that client.
C4_OnlyOwnConversationsDelivered ==
    \A c \in Clients : \A i \in 1..Len(view[c]) :
        sessions[messages[view[c][i]].session_id].user_id = clientUser[c]


\* ---------------------------------------------------------------------- C5
\* C5 (SpecAuth): when email verification is required, a login with any
\* non-empty password for an account whose email_verified is false is
\* answered 403 with the code EMAIL_NOT_VERIFIED and without a token, and the
\* login step changes no user row (last_login) and signs no token.
C5_UnverifiedLoginRejected ==
    /\ [](  (/\ resp.op = "login"
             /\ config.requireEmailVerification
             /\ resp.input[2] # <<>>
             /\ \E u \in 1..Len(users) :
                    users[u].email = resp.input[1] /\ ~users[u].email_verified)
          => (/\ resp.status = 403
              /\ resp.code = "EMAIL_NOT_VERIFIED"
              /\ resp.token = NoToken))
    /\ [][  (/\ resp'.op = "login"
             /\ resp' # resp
             /\ config.requireEmailVerification
             /\ \E u \in 1..Len(users) :
                    users[u].email = resp'.input[1] /\ ~users[u].email_verified)
          => (users' = users /\ issued' = issued)]_vars

\* an unverified account was refused although the password was the right one
C5_Witness ==
    /\ resp.op = "login"
    /\ resp.code = "EMAIL_NOT_VERIFIED"
    /\ config.requireEmailVerification
    /\ \E u \in 1..Len(users) :
          /\ users[u].email = resp.input[1]
          /\ ~users[u].email_verified
          /\ BcryptCompare(resp.input[2], users[u].password_hash)

\* ---------------------------------------------------------------------- C6
\* C6 (SpecAuth): with an allow-list configured (an entry that is not
\* blank), a register whose fields are all present and whose email has no
\* domain of the list (compared without case) is answered with the
\* domain-not-allowed error and adds no user row and no verification token;
\* with no allow-list configured the document-store register never answers
\* with that error.
C6_Configured == \E i \in 1..Len(config.allowedEmailDomains) :
                    DomainTrim(config.allowedEmailDomains[i]) # ""

C6_Outside(r) ==
    /\ r.op = "register"
    /\ C6_Configured
    /\ \A i \in 1..Len(r.input) : r.input[i] # <<>>
    /\ ~(/\ Len(r.input[1]) >= 2
         /\ \E i \in 1..Len(config.allowedEmailDomains) :
               DomainLower(DomainTrim(config.allowedEmailDomains[i]))
                   = DomainLower(r.input[1][2]))

C6_RefusedStep ==
    (C6_Outside(resp') /\ resp' # resp) => (users' = users /\ evTokens' = evTokens)

C6_DomainNotAllowed ==
    /\ [](C6_Outside(resp) => resp.error \in {DomainNotAllowed, AllowedDomainsOnly})
    /\ []((resp.op = "register" /\ variant = "docstore" /\ ~C6_Configured)
            => resp.error # AllowedDomainsOnly)
    /\ [][C6_RefusedStep]_vars

\* the backend refused a complete registration, with a password long enough,
\* for the domain of its email
C6_Witness ==
    /\ resp.op = "register"
    /\ resp.error = DomainNotAllowed
    /\ config.allowedEmailDomains # <<>>
    /\ \A i \in 1..Len(resp.input) : resp.input[i] # <<>>
    /\ Len(resp.input[1]) >= 2
    /\ Len(resp.input[2]) >= 8

\* ---------------------------------------------------------------------- C7
\* C7 (SpecAccess): on every protected route of the backend a request without
\* a bearer token is answered 401 'Access token required', a request whose
\* token does not verify or names no active user is answered 403, the route
\* handler runs only for a token that verifies and names an active user, and
\* a refused request leaves sessions, messages and sends in flight untouched
\* and returns no rows.
C7_Protected == {"profile", "theme", "themes", "createSession", "getSessions",
                 "deleteSession", "send", "getMessages"}

C7_Good(tk) ==
    /\ tk.present
    /\ tk.valid
    /\ tk.userId \in 1..Len(users)
    /\ users[tk.userId].is_active

C7_Routed(r) == variant = "session" /\ r.op \in C7_Protected

C7_RefusedStep ==
    (C7_Routed(resp') /\ resp' # resp /\ ~C7_Good(resp'.bearer))
        => (/\ sessions' = sessions
            /\ messages' = messages
            /\ req' = req
            /\ view' = view
            /\ users' = users
            /\ resp'.body = <<>>)

C7_ProtectedRoutes ==
    /\ [](C7_Routed(resp) =>
            /\ ~resp.bearer.present =>
                  (resp.status = 401 /\ resp.error = "Access token required")
            /\ (resp.bearer.present /\ ~C7_Good(resp.bearer)) => resp.status = 403
            /\ resp.ran <=> C7_Good(resp.bearer))
    /\ [][C7_RefusedStep]_vars

\* a request to delete an existing session was refused for its token
C7_Witness ==
    /\ variant = "session"
    /\ resp.op = "deleteSession"
    /\ resp.status = 403
    /\ resp.bearer.present
    /\ Len(sessions) >= 1
    /\ sessions[1].is_active

\* ---------------------------------------------------------------------- C8
\* C8 (SpecAuth): a login whose email or password is missing or empty is
\* answered 400 'Email and password are required', after no user lookup and
\* without a token.
C8_LoginFieldsRequired ==
    (resp.op = "login" /\ (resp.input[1] = <<>> \/ resp.input[2] = <<>>)) =>
        /\ resp.status = 400
        /\ resp.error = "Email and password are required"
        /\ resp.lookups = 0
        /\ resp.token = NoToken

\* a login with the email of a registered user and no password was refused
C8_Witness ==
    /\ resp.op = "login"
    /\ resp.status = 400
    /\ resp.input[2] = <<>>
    /\ \E u \in 1..Len(users) : users[u].email = resp.input[1]

\* ---------------------------------------------------------------------- C9
\* C9 (Spec): no send whose text is empty or only whitespace gets past the
\* check of the text: no stored user message and no send in flight has such
\* a text.
C9_BlankSendRejected ==
    /\ \A i \in 1..Len(messages) :
          messages[i].type = "user" => Trim(messages[i].text) # <<>>
    /\ \A c \in Clients : req[c].pc # "idle" => Trim(req[c].text) # <<>>

\* --------------------------------------------------------------------- C10
\* C10 (SpecTitle): the derived title is the first message itself when that
\* has at most 50 characters, else its first 50 characters followed by
\* "...", and never has more than 53 characters.
C10_TitleDerivation ==
    resp.op = "title" =>
        /\ Len(tIn) <= 50 => tOut = tIn
        /\ Len(tIn) > 50 => tOut = SubSeq(tIn, 1, 50) \o <<".", ".", ".">>
        /\ Len(tOut) <= 53

\* a first message of more than 50 characters got its title
C10_Witness ==
    /\ resp.op = "title"
    /\ Len(tIn) > 50
    /\ Len(tOut) = 53
    /\ tOut # tIn


\* ---------------------------------------- specification: webhook replies
\* Sends in both variants whose webhook answers 200 with a body of every
\* shape the handlers tell apart (or times out); the store accepts every
\* write.
Hi == <<"h", "i">>
PlainText == <<"p", "l", "a", "i", "n", " ", "t", "e", "x", "t">>

ReplyKeys == {"responseBody", "redacted", "message", "output", "text", "response", "other"}
ReplyValues == {Hi, <<"x">>, <<>>}

\* the bodies: a text that is not JSON, a JSON string, and the JSON objects
\* of at most two members
ReplyBodies ==
    {BodyText(PlainText), BodyJsonString(Hi), BodyJsonObject(<<>>)}
    \cup {BodyJsonObject(<<[k |-> k1, v |-> v1]>>) : k1 \in ReplyKeys, v1 \in ReplyValues}
    \cup {BodyJsonObject(<<[k |-> kv[1], v |-> kv[2]], [k |-> kv[3], v |-> kv[4]]>>) :
            kv \in {x \in ReplyKeys \X ReplyValues \X ReplyKeys \X ReplyValues :
                        x[1] # x[3]}}

ReplyOutcomes == {Timeout} \cup {Http(200, b) : b \in ReplyBodies}

InitWebhook ==
    /\ InitChat
    /\ config.webhookEnabled

NextWebhook ==
    \/ \E c \in Clients : CreateSession(c, TokenOf(clientUser[c]))
    \/ \E c \in Clients, s \in 1..MaxSessions :
            SendMessage(c, TokenOf(clientUser[c]), s, <<"a">>, TRUE)
    \/ \E c \in Clients : SendCallWebhook(c, TRUE)
    \/ \E c \in Clients, out \in ReplyOutcomes : SendWebhookReturn(c, out, TRUE, TRUE)
    \/ \E c \in Clients : CreateConversation(c, TRUE)
    \/ \E c \in Clients : handleSubmit(c, <<"a">>, TRUE, TRUE)
    \/ \E c \in Clients : SubmitCall(c, TRUE, TRUE, TRUE)
    \/ \E c \in Clients, out \in ReplyOutcomes : SubmitReturn(c, out, TRUE, TRUE)

SpecWebhook == InitWebhook /\ [][NextWebhook]_vars

\* --------------------------------------------------------------------- C12
\* C12 (SpecWebhook): in both variants the assistant message stored for a
\* send whose webhook answered 200 is "hi" for the body {"output": "hi"},
\* "hi" for the JSON string "hi", and "plain text" for the body plain text
\* that is not JSON.
C12_StoredReplyText ==
    LET stored(body, text) ==
            (resp.op = "send" /\ resp.upstream = Http(200, body)) =>
                /\ resp.bmsg \in 1..Len(messages)
                /\ messages[resp.bmsg].session_id = resp.session
                /\ messages[resp.bmsg].text = text
    IN  /\ stored(BodyJsonObject(<<[k |-> "output", v |-> Hi]>>), Hi)
        /\ stored(BodyJsonString(Hi), Hi)
        /\ stored(BodyText(PlainText), PlainText)

\* --------------------------------------------------------------------- C13
\* C13 (SpecWebhook): for a 200 answer whose body is a JSON object, the
\* stored reply text is the value of the first field the object has with a
\* text that is not empty, in the priority order of the variant
\* (responseBody, redacted, message, output, text in the proxy route; text,
\* response in the backend), whatever the order of the keys, and the
\* serialization of the whole object when it has none of them.
C13_Expected(body, priority, serialized) ==
    LET hits == {i \in 1..Len(priority) :
                    \E n \in 1..Len(body.fields) :
                        body.fields[n].k = priority[i] /\ body.fields[n].v # <<>>}
    IN  IF hits = {} THEN serialized
        ELSE LET first == CHOOSE i \in hits : \A j \in hits : i <= j
                 at    == CHOOSE n \in 1..Len(body.fields) : body.fields[n].k = priority[first]
             IN  body.fields[at].v

C14_ExactlyOneWebhookCall ==
    /\ \A c \in Clients : req[c].calls <= 1
    /\ (resp.op = "send" /\ resp.umsg # 0 /\ config.webhookEnabled) => resp.calls = 1

\* ------------------------------------------- specification: message pages
\* The session backend with a clock that advances at every timestamp taken:
\* sessions, sends, and reads of the session list and of the message pages.
PageInputs == {1, 2}
LimitInputs == {1, 2, DefaultLimit}

InitPaging ==
    /\ variant = "session"
    /\ config \in {[requireEmailVerification |-> TRUE, emailVerification |-> TRUE,
                    allowedEmailDomains |-> <<"ok.com">>, expiryHours |-> 1, webhookEnabled |-> w] :
                      w \in BOOLEAN}
    /\ users = <<UserRow(<<"alice", "ok.com">>, BcryptHash(Rep("p", MinPasswordLength)),
                         <<"A">>, <<"L">>, TRUE),
                 UserRow(<<"bob", "ok.com">>, BcryptHash(Rep("q", MinPasswordLength)),
                         <<"B">>, <<"L">>, TRUE)>>
    /\ issued = {1, 2}
    /\ evTokens = <<>>
    /\ clientUser = [c \in Clients |-> c]
    /\ sessions = <<>>
    /\ messages = <<>>
    /\ now = 1
    /\ ticking = TRUE
    /\ logsOk = TRUE
    /\ capacity = MaxMessages
    /\ req = [c \in Clients |-> Idle]
    /\ vreq = [c \in Clients |-> VIdle]
    /\ rreq = [c \in Clients |-> RIdle]
    /\ latency = FALSE
    /\ currentSession = [c \in Clients |-> 0]
    /\ loading = [c \in Clients |-> LIdle]
    /\ inbox = [c \in Clients |-> <<>>]
    /\ joined = [c \in Clients |-> {}]
    /\ view = [c \in Clients |-> <<>>]
    /\ resp = NoResp
    /\ tIn = <<>>
    /\ tOut = <<>>

NextPaging ==
    \/ \E c \in Clients : CreateSession(c, TokenOf(clientUser[c]))
    \/ \E c \in Clients, s \in 1..MaxSessions :
            SendMessage(c, TokenOf(clientUser[c]), s, <<"a">>, TRUE)
    \/ \E c \in Clients, ok \in BOOLEAN : SendCallWebhook(c, ok)
    \/ \E c \in Clients, out \in {Timeout, ReplyOk}, ok \in BOOLEAN :
            SendWebhookReturn(c, out, TRUE, ok)
    \/ \E c \in Clients, s \in 1..MaxSessions, page \in PageInputs, limit \in LimitInputs :
            GetMessages(c, TokenOf(clientUser[c]), s, page, limit)
    \/ \E c \in Clients : GetSessions(c, TokenOf(clientUser[c]))

SpecPaging == InitPaging /\ [][NextPaging]_vars

\* --------------------------------------------------------------------- C11
\* C11 (SpecPaging): for every session, page and page size, the page of
\* messages the route returns is in strictly ascending creation-time order,
\* and so is that page followed by the next page.
C11_PagesAscending ==
    \A s \in 1..Len(sessions), page \in PageInputs, limit \in LimitInputs :
        LET pageOf(p) == Reverse(PageDesc(s, limit, (p - 1) * limit))
            read      == pageOf(page) \o pageOf(page + 1)
        IN  \A i \in 1..Len(read), j \in 1..Len(read) :
                i < j => messages[read[i]].created_at < messages[read[j]].created_at

\* --------------------------------------------------------------------- C15
\* the message stored by this step is appended to the list of client c when
\* c is in the room of its session, and is not delivered to c otherwise
C15_Delivered(c) ==
    IF messages'[Len(messages')].session_id \in joined[c]
    THEN view'[c] = Append(view[c], Len(messages'))
    ELSE view'[c] = view[c]

\* a step of the session backend that stores a message publishes it in the
\* same step, once, to every client in the room; no other step publishes
C15_PublishedStep ==
    variant = "session" =>
        IF Len(messages') = Len(messages) + 1
        THEN \A c \in Clients : C15_Delivered(c)
        ELSE view' = view

VerifyEmails == {<<"alice", "ok.com">>, <<"bob", "ok.com">>}
VerifyTokens == 0..(MaxUsers + 1)

InitVerify ==
    /\ variant = "session"
    /\ config = [requireEmailVerification |-> TRUE, emailVerification |-> TRUE,
                 allowedEmailDomains |-> <<"ok.com">>, expiryHours |-> 1,
                 webhookEnabled |-> TRUE]
    /\ users = <<>>
    /\ issued = {}
    /\ evTokens = <<>>
    /\ clientUser = [c \in Clients |-> 0]
    /\ sessions = <<>>
    /\ messages = <<>>
    /\ now = 1
    /\ ticking = TRUE
    /\ logsOk = TRUE
    /\ capacity = MaxMessages
    /\ req = [c \in Clients |-> Idle]
    /\ vreq = [c \in Clients |-> VIdle]
    /\ rreq = [c \in Clients |-> RIdle]
    /\ latency = FALSE
    /\ currentSession = [c \in Clients |-> 0]
    /\ loading = [c \in Clients |-> LIdle]
    /\ inbox = [c \in Clients |-> <<>>]
    /\ joined = [c \in Clients |-> {}]
    /\ view = [c \in Clients |-> <<>>]
    /\ resp = NoResp
    /\ tIn = <<>>
    /\ tOut = <<>>

NextVerify ==
    \/ \E e \in VerifyEmails :
            PostRegister(e, Rep("p", MinPasswordLength), <<"N">>, <<"N">>)
    \/ \E c \in Clients, t \in VerifyTokens : VerifySelect(c, t)
    \/ \E c \in Clients, okDb \in BOOLEAN, okMail \in BOOLEAN : VerifyCommit(c, okDb, okMail)
    \/ Advance

SpecVerify == InitVerify /\ [][NextVerify]_vars

\* --------------------------------------------------------------------- C16
\* a verify-email request of client c ends in this step with a success
\* answer
C16_Redeems(c) ==
    /\ vreq[c].pc = "selected"
    /\ vreq'[c].pc = "idle"
    /\ resp'.status = 200

\* it is the verification of this step that turns the user verified
C16_MarksVerified(u) ==
    /\ resp'.op = "verify"
    /\ u \in 1..Len(users)
    /\ ~users[u].email_verified
    /\ users'[u].email_verified

\* the token of client c's request is unused when the request succeeds, and a
\* user becomes verified only through a token that exists and is unused
C16_RedeemStep ==
    /\ \A c \in Clients : C16_Redeems(c) => ~evTokens[vreq[c].token].used
    /\ \A u \in 1..MaxUsers : C16_MarksVerified(u) =>
            \E c \in Clients :
                /\ C16_Redeems(c)
                /\ vreq[c].token \in 1..Len(evTokens)
                /\ evTokens[vreq[c].token].user_id = u
                /\ ~evTokens[vreq[c].token].used

\* C16 (SpecVerify): a verification token is single-use and time-limited: a
\* request is let past the checks only with a token that exists, has not
\* expired and has not been used, only such a request marks the user
\* verified, and a token that was redeemed once is redeemed by no later or
\* concurrent request.
C16_TokenSingleUse ==
    /\ [](\A c \in Clients : vreq[c].pc = "selected" =>
            /\ vreq[c].token \in 1..Len(evTokens)
            /\ ~evTokens[vreq[c].token].used)
    /\ [][C16_RedeemStep]_vars

\* --------------------------------------------------------------------- C17
\* C17 (SpecRealtime): when the webhook call of a send failed, the chat
\* client's request is still answered with a success status (by the backend
\* route, by the proxy route) and the answer carries the stored user message.
\* (The store accepts every write here.)
C17_WebhookFailureAbsorbed ==
    (resp.op = "send" /\ resp.webhook = "failed") =>
        /\ resp.umsg \in 1..Len(messages)
        /\ messages[resp.umsg].type = "user"
        /\ variant = "session" => resp.status = 200
        /\ variant = "docstore" => resp.proxy \in 200..299

\* ------------------------------------ specification: the session list
\* The session backend with MaxListed conversations already created, one
\* after the other, the first by user 1 and each other one by either user;
\* sends, deletions and list requests follow. The store accepts every write
\* and the clock advances with every timestamp taken.
InitListing ==
    /\ variant = "session"
    /\ config = [requireEmailVerification |-> TRUE, emailVerification |-> TRUE,
                 allowedEmailDomains |-> <<"ok.com">>, expiryHours |-> 1,
                 webhookEnabled |-> TRUE]
    /\ users = <<UserRow(<<"alice", "ok.com">>, BcryptHash(Rep("p", MinPasswordLength)),
                         <<"A">>, <<"L">>, TRUE),
                 UserRow(<<"bob", "ok.com">>, BcryptHash(Rep("q", MinPasswordLength)),
                         <<"B">>, <<"L">>, TRUE)>>
    /\ issued = {1, 2}
    /\ evTokens = <<>>
    /\ clientUser = [c \in Clients |-> c]
    /\ sessions \in {[s \in 1..MaxListed |-> SessionRow(owner[s], <<"Chat">>, s)] :
                        owner \in {o \in [1..MaxListed -> 1..2] : o[1] = 1}}
    /\ messages = <<>>
    /\ now = MaxListed + 1
    /\ ticking = TRUE
    /\ logsOk = TRUE
    /\ capacity = MaxMessages
    /\ req = [c \in Clients |-> Idle]
    /\ vreq = [c \in Clients |-> VIdle]
    /\ rreq = [c \in Clients |-> RIdle]
    /\ latency = FALSE
    /\ currentSession = [c \in Clients |-> 0]
    /\ loading = [c \in Clients |-> LIdle]
    /\ inbox = [c \in Clients |-> <<>>]
    /\ joined = [c \in Clients |-> {}]
    /\ view = [c \in Clients |-> <<>>]
    /\ resp = NoResp
    /\ tIn = <<>>
    /\ tOut = <<>>

NextListing ==
    \/ \E c \in Clients : \E s \in 1..Len(sessions) :
            SendMessage(c, TokenOf(clientUser[c]), s, <<"a">>, TRUE)
    \/ \E c \in Clients : SendCallWebhook(c, TRUE)
    \/ \E c \in Clients, out \in {Timeout, ReplyOk} : SendWebhookReturn(c, out, TRUE, TRUE)
    \/ \E c \in Clients : GetSessions(c, TokenOf(clientUser[c]))
    \/ \E c \in Clients : \E s \in 1..Len(sessions) :
            DeleteSession(c, TokenOf(clientUser[c]), s)

SpecListing == InitListing /\ [][NextListing]_vars

\* --------------------------------------------------------------------- C18
\* no conversation's updated_at goes back in this step
C18_NoDecreaseStep ==
    \A s \in 1..Len(sessions) : sessions'[s].updated_at >= sessions[s].updated_at

\* C18 (SpecListing): a send that completes has bumped updated_at of its
\* conversation past the creation time of its user message and past updated_at
\* of every other conversation, also when its webhook call failed;
\* updated_at never decreases; and the session list holds exactly the
\* caller's own active conversations, newest-updated first.
C18_UpdatedAtAndListing ==
    /\ []((resp.op = "send" /\ resp.status = 200) =>
            /\ sessions[resp.session].updated_at > messages[resp.umsg].created_at
            /\ \A s \in 1..Len(sessions) :
                    s # resp.session =>
                        sessions[s].updated_at < sessions[resp.session].updated_at)
    /\ []((resp.op = "getSessions" /\ resp.status = 200) =>
            /\ \A s \in 1..Len(sessions) :
                    (\E i \in 1..Len(resp.body) : resp.body[i] = s)
                        <=> (sessions[s].user_id = resp.bearer.userId /\ sessions[s].is_active)
            /\ \A i \in 1..Len(resp.body), j \in 1..Len(resp.body) :
                    i < j => /\ resp.body[i] # resp.body[j]
                             /\ sessions[resp.body[i]].updated_at
                                    >= sessions[resp.body[j]].updated_at)
    /\ [][C18_NoDecreaseStep]_vars

\* a send whose webhook call failed has completed
C18_Witness ==
    /\ resp.op = "send" /\ resp.status = 200
    /\ resp.webhook = "failed"
    /\ sessions[resp.session].updated_at > messages[resp.umsg].created_at

\* --------------------------------------- specification: optional side work
\* Everything the primary operations need succeeds; the log tables may
\* refuse every insert, the welcome email and the title update may fail. The
\* session backend starts without users (register, verify, login, create a
\* session, send); the document-store client starts with its two users
\* signed in.
InitSideWork ==
    /\ variant \in {"session", "docstore"}
    /\ config = [requireEmailVerification |-> TRUE, emailVerification |-> TRUE,
                 allowedEmailDomains |-> <<"ok.com">>, expiryHours |-> 1,
                 webhookEnabled |-> TRUE]
    /\ logsOk \in BOOLEAN
    /\ capacity = MaxMessages
    /\ users = IF variant = "session" THEN <<>>
               ELSE <<UserRow(<<"alice", "ok.com">>, BcryptHash(Rep("p", MinPasswordLength)),
                              <<"A">>, <<>>, TRUE),
                      UserRow(<<"bob", "ok.com">>, BcryptHash(Rep("q", MinPasswordLength)),
                              <<"B">>, <<>>, TRUE)>>
    /\ issued = {}
    /\ evTokens = <<>>
    /\ clientUser = [c \in Clients |-> IF variant = "session" THEN 0 ELSE c]
    /\ sessions = <<>>
    /\ messages = <<>>
    /\ now = 1
    /\ ticking = FALSE
    /\ req = [c \in Clients |-> Idle]
    /\ vreq = [c \in Clients |-> VIdle]
    /\ rreq = [c \in Clients |-> RIdle]
    /\ latency = FALSE
    /\ currentSession = [c \in Clients |-> 0]
    /\ loading = [c \in Clients |-> LIdle]
    /\ inbox = [c \in Clients |-> <<>>]
    /\ joined = [c \in Clients |-> {}]
    /\ view = [c \in Clients |-> <<>>]
    /\ resp = NoResp
    /\ tIn = <<>>
    /\ tOut = <<>>

NextSideWork ==
    \/ \E e \in VerifyEmails :
            PostRegister(e, Rep("p", MinPasswordLength), <<"N">>, <<"N">>)
    \/ \E c \in Clients, t \in 1..MaxUsers : VerifySelect(c, t)
    \/ \E c \in Clients, okMail \in BOOLEAN : VerifyCommit(c, TRUE, okMail)
    \/ \E e \in VerifyEmails : PostLogin(e, Rep("p", MinPasswordLength))
    \/ \E c \in Clients, u \in 1..MaxUsers : u \in issued /\ CreateSession(c, TokenOf(u))
    \/ \E c \in Clients, u \in 1..MaxUsers, s \in 1..MaxSessions :
            u \in issued /\ SendMessage(c, TokenOf(u), s, <<"a">>, TRUE)
    \/ \E c \in Clients : SendCallWebhook(c, TRUE)
    \/ \E c \in Clients, out \in {Timeout, ReplyOk} : SendWebhookReturn(c, out, TRUE, TRUE)
    \/ \E c \in Clients : CreateConversation(c, TRUE)
    \/ \E c \in Clients : handleSubmit(c, <<"a">>, TRUE, TRUE)
    \/ \E c \in Clients, okTitle \in BOOLEAN : SubmitCall(c, okTitle, TRUE, TRUE)
    \/ \E c \in Clients, out \in {Timeout, ReplyOk} : SubmitReturn(c, out, TRUE, TRUE)

SpecSideWork == InitSideWork /\ [][NextSideWork]_vars

\* --------------------------------------------------------------------- C19
\* the send of client c leaves the point after the user message was written
C19_LeavesPersisted(c) ==
    /\ variant = "docstore"
    /\ req[c].pc = "persisted"
    /\ req'[c] # req[c]

\* whatever became of the title update, that send goes on to its webhook call
C19_TitleStep ==
    \A c \in Clients :
        C19_LeavesPersisted(c) => (req'[c].pc = "calling" /\ req'[c].calls = 1)

\* C19 (SpecSideWork): a failure of optional side work never fails the
\* primary operation. With log tables that refuse every insert, register,
\* login, verify and send are answered as with working ones (never with the
\* internal error 500); a verification whose welcome email failed is answered
\* 200 and its user stays verified and its token used; and a send of the
\* document-store client goes on to the webhook call whether or not the
\* title update succeeded.
C19_SideWorkNeverFails ==
    /\ [](resp.op \in {"register", "login", "verify", "send"} => resp.status # 500)
    /\ []((resp.op = "register" /\ resp.error = "") => resp.status = 201)
    /\ []((resp.op = "login" /\ resp.error = "") => (resp.status = 200 /\ resp.token.present))
    /\ []((resp.op = "send" /\ variant = "session" /\ resp.umsg # 0) => resp.status = 200)
    /\ []((resp.op = "verify" /\ resp.welcome = "caught") =>
            /\ resp.status = 200
            /\ users[evTokens[resp.vtoken].user_id].email_verified
            /\ evTokens[resp.vtoken].used)
    /\ [][C19_TitleStep]_vars

\* with the log tables refusing every insert, a user has registered, verified
\* the email address, logged in and completed a send
C19_Witness ==
    /\ ~logsOk
    /\ variant = "session"
    /\ resp.op = "send" /\ resp.status = 200
    /\ resp.bearer.userId \in issued

\* --------------------------------------------------------------------- C20
\* a message stored by this step is not older than any message the
\* conversation already holds, so that it comes last in ORDER BY created_at
C20_AddedLast ==
    \A i \in 1..Len(messages'), j \in 1..Len(messages) :
        (i > Len(messages) /\ messages'[i].session_id = messages[j].session_id)
            => messages'[i].created_at >= messages[j].created_at

\* no stored message is changed or removed in this step, and in the session
\* backend no session row is removed
C20_AppendOnlyStep ==
    /\ Len(messages') >= Len(messages)
    /\ \A i \in 1..Len(messages) : messages'[i] = messages[i]
    /\ C20_AddedLast
    /\ variant = "session" =>
            /\ Len(sessions') >= Len(sessions)
            /\ \A s \in 1..Len(sessions) : sessions'[s].user_id = sessions[s].user_id

\* C20 (Spec): messages are append-only and immutable: every step leaves
\* each stored message as it was (conversation, author, text, type, creation
\* time), the message list of every conversation after the step is an
\* extension of the list before it, and in the session backend a deleted
\* session keeps its row (is_active = false) and its messages.
C20_MessagesAppendOnly ==
    /\ [][C20_AppendOnlyStep]_vars
    /\ [](variant = "session" =>
            \A i \in 1..Len(messages) :
                /\ messages[i].session_id \in 1..Len(sessions)
                /\ sessions[messages[i].session_id].user_id = messages[i].user_id)

\* a session of the session backend that holds a message was deleted
C20_Witness ==
    /\ variant = "session"
    /\ \E i \in 1..Len(messages) :
            /\ ~sessions[messages[i].session_id].is_active
            /\ sessions[messages[i].session_id].user_id = messages[i].user_id

\* ---------------------------------- specification: two tabs of one user
\* The document-store client open in two tabs of the same user: both tabs
\* can show the same conversation and send into it, one after the other or
\* at the same time. Every write succeeds and the webhook answers.
TabTexts == {<<"a">>, <<"b">>}

InitTabs ==
    /\ variant = "docstore"
    /\ config = [requireEmailVerification |-> FALSE, emailVerification |-> FALSE,
                 allowedEmailDomains |-> <<"ok.com">>, expiryHours |-> 1,
                 webhookEnabled |-> TRUE]
    /\ users = <<UserRow(<<"alice", "ok.com">>, BcryptHash(Rep("p", MinPasswordLength)),
                         <<"A">>, <<>>, TRUE)>>
    /\ issued = {}
    /\ evTokens = <<>>
    /\ clientUser = [c \in Clients |-> 1]
    /\ sessions = <<>>
    /\ messages = <<>>
    /\ now = 1
    /\ ticking = FALSE
    /\ logsOk = TRUE
    /\ capacity = 2 * MaxMessages
    /\ req = [c \in Clients |-> Idle]
    /\ vreq = [c \in Clients |-> VIdle]
    /\ rreq = [c \in Clients |-> RIdle]
    /\ latency = FALSE
    /\ currentSession = [c \in Clients |-> 0]
    /\ loading = [c \in Clients |-> LIdle]
    /\ inbox = [c \in Clients |-> <<>>]
    /\ joined = [c \in Clients |-> {}]
    /\ view = [c \in Clients |-> <<>>]
    /\ resp = NoResp
    /\ tIn = <<>>
    /\ tOut = <<>>

NextTabs ==
    \/ \E c \in Clients : CreateConversation(c, TRUE)
    \/ \E c \in Clients, s \in 1..MaxSessions : SubscribeMessages(c, s)
    \/ \E c \in Clients : Snapshot(c)
    \/ \E c \in Clients, m \in TabTexts : handleSubmit(c, m, TRUE, TRUE)
    \/ \E c \in Clients : SubmitCall(c, TRUE, TRUE, TRUE)
    \/ \E c \in Clients : SubmitReturn(c, ReplyOk, TRUE, TRUE)

SpecTabs == InitTabs /\ [][NextTabs]_vars

\* --------------------------------------------------------------------- C21
\* the title of an existing conversation changes in this step only from the
\* title it was created with
C21_TitleStep ==
    \A s \in 1..Len(sessions) :
        (sessions'[s].is_active /\ sessions'[s].title # sessions[s].title)
            => sessions[s].title = NewChatTitle

\* C21 (SpecTabs): the title of a conversation is set automatically at most
\* once, by the send of its first message: once it was set, no later send
\* and no send of another tab on the same conversation changes it again.
C21_TitleSetOnce == [][C21_TitleStep]_vars

\* ---------------------------------- specification: overlapping registers
\* Register requests of two clients that can overlap, with passwords of
\* seven and of eight characters, for two email addresses.
RegisterEmails == {<<"alice", "ok.com">>, <<"bob", "ok.com">>}
RegisterPasswords == {Rep("p", MinPasswordLength - 1), Rep("p", MinPasswordLength)}

InitRegister ==
    /\ InitAuth
    /\ variant = "session"
    /\ config.allowedEmailDomains = <<"ok.com">>

NextRegister ==
    \/ \E c \in Clients, e \in RegisterEmails, p \in RegisterPasswords :
            RegisterCheck(c, e, p, <<"N">>, <<"N">>)
    \/ \E c \in Clients : RegisterInsert(c)

SpecRegister == InitRegister /\ [][NextRegister]_vars

\* --------------------------------------------------------------------- C22
\* a register request with a weak password or with the email of an existing
\* user does not get past the checks
C22_PassesChecks(c) ==
    (rreq[c].pc = "idle" /\ rreq'[c].pc = "checked") =>
        /\ Len(rreq'[c].password) >= MinPasswordLength
        /\ UserWithEmail(rreq'[c].email) = {}

\* the insert of client c's request has created a user and is answered 201
C22_Inserts(c) ==
    /\ rreq[c].pc = "checked"
    /\ rreq'[c].pc = "idle"
    /\ resp'.status = 201
    /\ UserWithEmail(rreq[c].email) = {}
    /\ users' = Append(users, users'[Len(users')])
    /\ users'[Len(users')].email = rreq[c].email

\* the users table changes only through such an insert
C22_RegisterStep ==
    /\ \A c \in Clients : C22_PassesChecks(c)
    /\ users' # users => \E c \in Clients : C22_Inserts(c)

\* C22 (SpecRegister): a register request (all fields given, domain allowed)
\* with a password of fewer than 8 characters is answered with the
\* weak-password error, otherwise one for the email of an existing user with
\* the duplicate-email error, and neither creates a user; whatever the
\* interleaving of the requests, no two user rows have the same email.
C22_RegisterRefusals ==
    /\ [](\A i \in 1..Len(users), j \in 1..Len(users) :
            i # j => users[i].email # users[j].email)
    /\ []((resp.op = "register" /\ Len(resp.input[2]) < MinPasswordLength) =>
            /\ resp.status = 400
            /\ resp.error = "Password must be at least 8 characters long")
    /\ []((resp.op = "register" /\ Len(resp.input[2]) >= MinPasswordLength
                                /\ resp.status = 400) =>
            /\ resp.error = "User already exists"
            /\ UserWithEmail(resp.input[1]) # {})
    /\ [][C22_RegisterStep]_vars

\* two requests for the same email overlapped: one created the user, the
\* other was refused by the constraint
C22_Witness ==
    /\ resp.op = "register" /\ resp.status = 500
    /\ UserWithEmail(resp.input[1]) # {}
    /\ \A c \in Clients : rreq[c].pc = "idle"

\* --------------------------------------------------------------------- C23
\* what the messages route answers for page p of size L of session s
C23_Page(s, p, L) == Reverse(PageDesc(s, L, (p - 1) * L))

\* the messages of s ranked (p-1)*L+1 .. min(p*L, N) from the newest, oldest
\* first
C23_Ranked(s, p, L) ==
    LET asc == MessageIdsOf(s)
        N   == Len(asc)
        hi  == Min(p * L, N)
        lo  == (p - 1) * L + 1
    IN  [k \in 1..(IF hi >= lo THEN hi - lo + 1 ELSE 0) |-> asc[N - hi + k]]

RECURSIVE C23_Pages(_, _, _)
\* the pages p, p-1, .. 1 of size L of session s, one after the other
C23_Pages(s, p, L) ==
    IF p = 0 THEN <<>> ELSE C23_Page(s, p, L) \o C23_Pages(s, p - 1, L)

\* C23 (SpecPaging): with N stored messages, page p of size L is exactly the
\* messages ranked (p-1)*L+1 through min(p*L, N) from the newest, oldest
\* first; the pages together hold every message exactly once (read from the
\* last page to the first they are the whole list), and the pages after
\* ceil(N/L) are empty.
C23_PageContents ==
    \A s \in 1..Len(sessions), L \in LimitInputs :
        /\ \A p \in 1..(MaxMessages + 1) :
                /\ C23_Page(s, p, L) = C23_Ranked(s, p, L)
                /\ (p - 1) * L >= Len(MessageIdsOf(s)) => C23_Page(s, p, L) = <<>>
        /\ C23_Pages(s, MaxMessages + 1, L) = MessageIdsOf(s)

\* the second page of size 1 of a session with two messages was requested
\* and holds the older message
C23_Witness ==
    /\ resp.op = "getMessages" /\ resp.status = 200
    /\ Len(MessageIdsOf(resp.session)) = 2
    /\ resp.body = <<MessageIdsOf(resp.session)[1]>>

\* ---------------------------------------------------------------------------
\* C24: a login with a wrong password

\* the last request was a login naming an existing active account with a
\* password that is not the account's
C24_WrongPassword ==
    /\ resp.op = "login"
    /\ Truthy(resp.input[1]) /\ Truthy(resp.input[2])
    /\ \E u \in ActiveUserWithEmail(resp.input[1]) :
            ~BcryptCompare(resp.input[2], users[u].password_hash)

\* C24 (SpecAuth): a login with an incorrect password is answered 401
\* 'Invalid credentials' exactly as a login for an unknown email, whatever the
\* state of the account (verified or not), carries no machine-readable code
\* and issues no token.
C24_WrongPasswordIndistinguishable ==
    C24_WrongPassword =>
        /\ resp.status = 401
        /\ resp.error = "Invalid credentials"
        /\ resp.code = NoCode
        /\ resp.token = NoToken

\* ---------------------------------------------------------------------------
\* C25: the assistant message of a document-store send

\* C25 (Spec): in the document-store variant a send that persisted an
\* assistant message (the reply or the fallback text) persisted its user
\* message before it; a send whose user-message write failed persists no
\* assistant message.
C25_AssistantAfterUser ==
    (variant = "docstore" /\ resp.op = "send" /\ resp.bmsg # 0) =>
        /\ resp.umsg # 0
        /\ resp.umsg < resp.bmsg
        /\ messages[resp.umsg].type = "user"

\* ---------------------------------------------------------------------------
\* specification: the socket client
\* The sessions exist; each client selects sessions of its user, loads their
\* history over HTTP, sends to the selected session and receives the
\* newMessage events of the rooms it joined, at once or after some delay.
InitSocket ==
    /\ variant = "session"
    /\ config = [requireEmailVerification |-> TRUE, emailVerification |-> TRUE,
                 allowedEmailDomains |-> <<"ok.com">>, expiryHours |-> 1,
                 webhookEnabled |-> TRUE]
    /\ users = <<UserRow(<<"alice", "ok.com">>, BcryptHash(Rep("p", MinPasswordLength)),
                         <<"A">>, <<"L">>, TRUE),
                 UserRow(<<"bob", "ok.com">>, BcryptHash(Rep("q", MinPasswordLength)),
                         <<"B">>, <<"L">>, TRUE)>>
    /\ issued = {1, 2}
    /\ evTokens = <<>>
    /\ clientUser = [c \in Clients |-> c]
    /\ sessions \in {[s \in 1..MaxListed |-> SessionRow(owner[s], <<"Chat">>, s)] :
                        owner \in {o \in [1..MaxListed -> 1..2] : o[1] = 1}}
    /\ messages = <<>>
    /\ now = MaxListed + 1
    /\ ticking = TRUE
    /\ logsOk = TRUE
    /\ capacity = MaxMessages
    /\ req = [c \in Clients |-> Idle]
    /\ vreq = [c \in Clients |-> VIdle]
    /\ rreq = [c \in Clients |-> RIdle]
    /\ latency \in BOOLEAN
    /\ currentSession = [c \in Clients |-> 0]
    /\ loading = [c \in Clients |-> LIdle]
    /\ inbox = [c \in Clients |-> <<>>]
    /\ joined = [c \in Clients |-> {}]
    /\ view = [c \in Clients |-> <<>>]
    /\ resp = NoResp
    /\ tIn = <<>>
    /\ tOut = <<>>

NextSocket ==
    \/ \E c \in Clients : \E s \in 1..Len(sessions) : setCurrentSession(c, s)
    \/ \E c \in Clients : LoadMessagesServe(c)
    \/ \E c \in Clients : LoadMessagesReturn(c)
    \/ \E c \in Clients : OnNewMessage(c)
    \/ \E c \in Clients :
            /\ currentSession[c] # 0
            /\ SendMessage(c, TokenOf(clientUser[c]), currentSession[c], <<"a">>, TRUE)
    \/ \E c \in Clients : SendCallWebhook(c, TRUE)
    \/ \E c \in Clients, out \in {Timeout, ReplyOk} : SendWebhookReturn(c, out, TRUE, TRUE)

SpecSocket == InitSocket /\ [][NextSocket]_vars

\* C26 (SpecSocket): the list a socket client shows never holds the same
\* message id twice, however the history load of a session interleaves with
\* the newMessage events of that session.
C26_NoDuplicateInList ==
    \A c \in Clients :
        \A i, j \in 1..Len(view[c]) : i # j => view[c][i] # view[c][j]

\* C27 (SpecSocket): once the history of the selected session has been
\* loaded, the list a socket client shows holds only messages of the
\* selected session; a message appended to a session selected earlier is not
\* added to it.
C27_OnlySelectedSession ==
    \A c \in Clients :
        (currentSession[c] # 0 /\ loading[c].pc = "idle") =>
            \A i \in 1..Len(view[c]) :
                messages[view[c][i]].session_id = currentSession[c]

\* ---------------------------------------------------------------------------
\* specification: resend-verification
\* One registered user whose verification email is out; new links are
\* requested (from two browsers at once as well) and links are followed.
ResendEmails == {<<>>, <<"alice", "ok.com">>, <<"bob", "ok.com">>}

InitResend ==
    /\ variant = "session"
    /\ config = [requireEmailVerification |-> TRUE, emailVerification |-> TRUE,
                 allowedEmailDomains |-> <<"ok.com">>, expiryHours |-> 1,
                 webhookEnabled |-> TRUE]
    /\ users = <<UserRow(<<"alice", "ok.com">>, BcryptHash(Rep("p", MinPasswordLength)),
                         <<"A">>, <<"L">>, FALSE)>>
    /\ issued = {}
    /\ evTokens = <<[user_id |-> 1, token |-> 1, expires_at |-> 1 + config.expiryHours,
                     used |-> FALSE]>>
    /\ clientUser = [c \in Clients |-> 0]
    /\ sessions = <<>>
    /\ messages = <<>>
    /\ now = 1
    /\ ticking = FALSE
    /\ logsOk = TRUE
    /\ capacity = MaxMessages
    /\ req = [c \in Clients |-> Idle]
    /\ vreq = [c \in Clients |-> VIdle]
    /\ rreq = [c \in Clients |-> RIdle]
    /\ latency = FALSE
    /\ currentSession = [c \in Clients |-> 0]
    /\ loading = [c \in Clients |-> LIdle]
    /\ inbox = [c \in Clients |-> <<>>]
    /\ joined = [c \in Clients |-> {}]
    /\ view = [c \in Clients |-> <<>>]
    /\ resp = NoResp
    /\ tIn = <<>>
    /\ tOut = <<>>

NextResend ==
    \/ \E c \in Clients, e \in ResendEmails : ResendSelect(c, e)
    \/ \E c \in Clients : ResendDelete(c)
    \/ \E c \in Clients, okMail \in BOOLEAN : ResendInsert(c, okMail)
    \/ \E c \in Clients, t \in 0..MaxTokens : VerifySelect(c, t)
    \/ \E c \in Clients : VerifyCommit(c, TRUE, TRUE)

SpecResend == InitResend /\ [][NextResend]_vars

\* ---------------------------------------------------------------------------
\* C28: resend-verification

\* client c's resend request is answered with success in this step
C28_Succeeds(c) ==
    /\ rreq[c].pc = "resend-deleted"
    /\ rreq'[c].pc = "idle"
    /\ resp'.op = "resend" /\ resp'.status = 200

\* after a resend succeeded the token it issued is the one unused token of
\* the user: no token issued to the user earlier can be redeemed
C28_SucceedStep ==
    \A c \in Clients :
        C28_Succeeds(c) =>
            \A u \in UserWithEmail(rreq[c].email) :
                {t \in 1..Len(evTokens') :
                    evTokens'[t].user_id = u /\ ~evTokens'[t].used} = {resp'.vtoken}

\* a resend for a verified user is refused and changes no token
C28_VerifiedStep ==
    (/\ resp'.op = "resend"
     /\ \E c \in Clients : rreq[c].pc = "idle" /\ vreq' = vreq /\ rreq' = rreq /\ now' = now
     /\ \E u \in UserWithEmail(resp'.input[1]) : users[u].email_verified)
        => (resp'.status = 400 /\ evTokens' = evTokens)

\* C28 (SpecResend): after a successful resend-verification for an unverified
\* user every token issued to the user earlier is no longer redeemable and
\* the user has exactly one unused token, also when two resend requests for
\* the user run concurrently; a resend for a verified user fails and changes
\* no token.
C28_ResendReplacesTokens == [][C28_SucceedStep /\ C28_VerifiedStep]_vars

\* ---------------------------------------------------------------------------
\* C29: a soft-deleted session

\* the messages route answered with the messages of a session that is active
C29_NoRead ==
    (resp.op = "getMessages" /\ resp.status = 200) => sessions[resp.session].is_active

\* the session list that was answered holds active sessions only
C29_NotListed ==
    (resp.op = "getSessions" /\ resp.status = 200) =>
        \A i \in 1..Len(resp.body) : sessions[resp.body[i]].is_active

\* a deleted session stays deleted, and no request that starts after the
\* deletion stores a message in it
C29_DeletedStep ==
    \A s \in 1..Len(sessions) :
        (variant = "session" /\ ~sessions[s].is_active) =>
            /\ ~sessions'[s].is_active
            /\ (/\ Len(messages') > Len(messages)
                /\ messages'[Len(messages')].session_id = s)
                    => \E c \in Clients : req[c].pc # "idle" /\ req[c].session = s

\* C29 (SpecAccess): once a session is soft-deleted every later operation on
\* it behaves as not found: a send stores nothing, a second delete changes
\* nothing, the session is absent from the list, and its messages are no
\* longer readable through the messages route.
C29_DeletedIsNotFound ==
    /\ [](C29_NoRead /\ C29_NotListed)
    /\ [][C29_DeletedStep]_vars

\* ---------------------------------------------------------------------------
\* C30: a known field holding the empty string

\* the value of the first field of priority that the object has, whatever
\* the value is; serialized when it has none of them
C30_Expected(body, priority, serialized) ==
    LET hits == {i \in 1..Len(priority) : HasKey(body, priority[i])}
    IN  IF hits = {} THEN serialized
        ELSE LET first == CHOOSE i \in hits : \A j \in hits : i <= j
             IN  Field(body, priority[first])

\* C30 (SpecWebhook): in response extraction a known field that is present
\* with an empty-string value counts as a match: the reply text stored is
\* that empty string, not a lower-priority field and not the serialization
\* of the whole object.
C30_EmptyFieldMatches ==
    LET body == resp.upstream.body IN
    (/\ resp.op = "send"
     /\ resp.upstream.kind = "http"
     /\ body.type = "object")
    => /\ resp.bmsg \in 1..Len(messages)
       /\ messages[resp.bmsg].text =
            IF variant = "docstore"
            THEN C30_Expected(body, <<"responseBody", "redacted", "message", "output", "text">>,
                              Stringify(body))
            ELSE C30_Expected(body, <<"text", "response">>, StringifyPretty(body))

====
